---------------------------- MODULE Spec2Model ----------------------------
(***************************************************************************)
(* A model of the intent classifier and router (pkg/bert, manager agent)   *)
(* and of the protocol adapter (pkg/localllm) of the multi-agent           *)
(* repository.  Strings are TLA+ strings; the string functions of Go's     *)
(* strings package are defined character by character.  The float64 scores *)
(* of the classifier are exact rationals here: a score s is the integer    *)
(* s * Unit, and a confidence is a fraction <<numerator, denominator>>.    *)
(***************************************************************************)
EXTENDS Integers, Sequences, FiniteSets, TLC

VARIABLES
    query,          \* classifier: the query string under classification
    out,            \* classifier: the result of the last completed call
    prev,           \* classifier: the result of the call before it
    req,            \* adapter: the LLMRequest under conversion
    messages,       \* adapter: convertToMessages' list after the loop over the turns
    finalMessages,  \* adapter: the list convertToMessages returns
    converted,      \* adapter: whether convertToMessages has returned
    schema,         \* adapter: the parameter schema of a declared function
    normalized,     \* adapter: what normalizeSchema returned for it, Nil before
    config,         \* adapter: req.Config as convertToTools reads it
    toolDefs,       \* adapter: the list convertToTools returned
    toolsDone,      \* adapter: whether convertToTools has returned
    chatResp,       \* adapter: the chatResponse under decoding
    llmResp,        \* adapter: what convertToLLMResponse returned, None before
    call,           \* GenerateContent: the arguments and l.baseURL of the call
    pc,             \* GenerateContent: where the running iteration stands
    wire,           \* GenerateContent: the JSON body of the request, Nil before
    httpSent,       \* GenerateContent: HTTP requests sent by this iteration
    httpResp,       \* GenerateContent: what client.Do returned, Nil before
    yielded,        \* GenerateContent: the values this iteration passed to yield
    cancelledAt,    \* GenerateContent: pc when ctx was cancelled, "never" before
    iteration,      \* GenerateContent: iterations of the sequence so far
    stdin,          \* main: what standard input still holds, line by line
    scanned,        \* main: what the last scanner.Scan() met, None before
    loopPc,         \* main: "prompt" at the top of the loop, "ended" after it
    output,         \* main: what the last pass through the loop printed
    lastRun,        \* main: what adkRunner.Run produced in the last pass
    errorsSeen,     \* main: errors the runner has produced so far
    ctxCancelled,   \* main: whether cancel() has been called on ctx
    vocabulary,     \* concurrent calls: intentPrototypes of the shared Classifier
    running,        \* concurrent calls: the locals of each running call
    scoreMaps,      \* concurrent calls: the maps made by make(map[Intent]float64)
    environ,        \* config: the environment variables of the process
    loaded,         \* config: what config.New() returned, Nil before
    backend         \* config: the back end main has built, "none" before

clsVars == <<query, out, prev>>
msgVars == <<req, messages, finalMessages, converted>>
schVars == <<schema, normalized>>
toolVars == <<config, toolDefs, toolsDone>>
rspVars == <<chatResp, llmResp>>
genVars == <<call, pc, wire, httpSent, httpResp, yielded, cancelledAt, iteration>>
loopVars == <<stdin, scanned, loopPc, output, lastRun, errorsSeen, ctxCancelled>>
conVars == <<vocabulary, running, scoreMaps>>
cfgVars == <<environ, loaded, backend>>
vars == <<clsVars, msgVars, schVars, toolVars, rspVars, genVars, loopVars, conVars, cfgVars>>

\* Go's nil, for a pointer, a map or an interface value.
Nil == [nil |-> TRUE]

None == [op |-> "none"]

\* convertToTools and convertToLLMResponse at rest, in the specifications
\* that are not about them.
ToolsIdle ==
    /\ config = Nil
    /\ toolDefs = <<>>
    /\ toolsDone = FALSE

ResponseIdle ==
    /\ chatResp = Nil
    /\ llmResp = None

\* GenerateContent not called, in the specifications that are not about it.
GenerateIdle ==
    /\ call = Nil
    /\ pc = "idle"
    /\ wire = Nil
    /\ httpSent = 0
    /\ httpResp = Nil
    /\ yielded = <<>>
    /\ cancelledAt = "never"
    /\ iteration = 0

\* The interactive loop not started, in the specifications that are not
\* about it.
LoopIdle ==
    /\ stdin = <<>>
    /\ scanned = None
    /\ loopPc = "prompt"
    /\ output = <<>>
    /\ lastRun = <<>>
    /\ errorsSeen = 0
    /\ ctxCancelled = FALSE

\* No call on a shared Classifier, in the specifications that are not about
\* concurrent calls.
ConcurrentIdle ==
    /\ vocabulary = Nil
    /\ running = <<>>
    /\ scoreMaps = <<>>

\* The configuration not loaded, in the specifications that are not about it.
ConfigIdle ==
    /\ environ = Nil
    /\ loaded = Nil
    /\ backend = "none"

-----------------------------------------------------------------------------
(* Bounds of the model.                                                     *)

\* The number of phrases of the Lexicon a query is made of.
MaxPhrases == 2

\* The number of turns (genai.Content) of a conversation.
MaxTurns == 3

\* The nesting depth of a parameter schema.
MaxDepth == 3

\* The number of function declarations of one tool.
MaxDecls == 2

\* The number of tool calls of one response message.
MaxCalls == 2

\* The number of times the sequence GenerateContent returns is iterated.
MaxIterations == 2

\* The number of lines standard input holds.
MaxLines == 2

\* The number of goroutines that call one Classifier at the same time.
MaxGoroutines == 2

-----------------------------------------------------------------------------
(* package strings                                                          *)

CharAt(s, i) == SubSeq(s, i, i)

UpperLetters == "ABCDEFGHIJKLMNOPQRSTUVWXYZ"
LowerLetters == "abcdefghijklmnopqrstuvwxyz"

LowerChar(c) ==
    IF \E i \in 1..Len(UpperLetters) : CharAt(UpperLetters, i) = c
    THEN CharAt(LowerLetters, CHOOSE i \in 1..Len(UpperLetters) : CharAt(UpperLetters, i) = c)
    ELSE c

RECURSIVE ToLowerFrom(_, _)
ToLowerFrom(s, i) ==
    IF i > Len(s) THEN "" ELSE LowerChar(CharAt(s, i)) \o ToLowerFrom(s, i + 1)

ToLowerIdentity(s) == s

ToLower(s) == ToLowerFrom(s, 1)

Contains(s, substr) ==
    \E i \in 1..(Len(s) - Len(substr) + 1) : SubSeq(s, i, i + Len(substr) - 1) = substr

HasPrefix(s, prefix) ==
    Len(s) >= Len(prefix) /\ SubSeq(s, 1, Len(prefix)) = prefix

IsSpace(c) == c \in {" ", "\t"}

\* strings.Fields: the maximal runs of non-space characters, in order.
RECURSIVE FieldsFrom(_, _, _)
FieldsFrom(s, i, cur) ==
    IF i > Len(s)
    THEN IF cur = "" THEN <<>> ELSE <<cur>>
    ELSE IF IsSpace(CharAt(s, i))
         THEN (IF cur = "" THEN <<>> ELSE <<cur>>) \o FieldsFrom(s, i + 1, "")
         ELSE FieldsFrom(s, i + 1, cur \o CharAt(s, i))

Fields(s) == FieldsFrom(s, 1, "")

containsAny(s, substrs) == \E k \in 1..Len(substrs) : Contains(s, substrs[k])

-----------------------------------------------------------------------------
(* package bert: the classifier                                             *)

IntentSQLQuery == "sql_query"
IntentVisualization == "visualization"
IntentGeneral == "general"

Intents == {IntentSQLQuery, IntentVisualization, IntentGeneral}

intentPrototypes ==
    [i \in Intents |->
        CASE i = IntentSQLQuery ->
               <<"query", "select", "fetch", "get", "show", "list", "find",
                 "database", "table", "data", "rows", "records", "sql",
                 "where", "from", "join", "count", "sum", "average",
                 "filter", "search", "lookup", "retrieve">>
          [] i = IntentVisualization ->
               <<"chart", "graph", "plot", "visualize", "visualization",
                 "bar", "line", "pie", "scatter", "histogram",
                 "display", "render", "draw", "show chart", "create chart",
                 "trend", "comparison", "distribution">>
          [] OTHER ->
               <<"help", "how", "what", "explain", "describe",
                 "information", "about", "tell me">>]

\* One score point (1.0).  Every score the code can produce is a multiple of
\* 0.5 divided by a vocabulary size, so score * Unit is an integer.
Unit == 2 * Len(intentPrototypes[IntentSQLQuery])
          * Len(intentPrototypes[IntentVisualization])
          * Len(intentPrototypes[IntentGeneral])

Half == Unit \div 2

\* The inner loop over words for one keyword, in half points added to score.
RECURSIVE WordLoop(_, _, _)
WordLoop(words, keyword, k) ==
    IF k > Len(words) THEN 0
    ELSE (IF words[k] = keyword THEN 4
          ELSE IF Contains(words[k], keyword) \/ Contains(keyword, words[k]) THEN 2
          ELSE 0) + WordLoop(words, keyword, k + 1)

RECURSIVE KeywordLoopNoGuard(_, _, _, _, _)
KeywordLoopNoGuard(queryLower, words, keywords, k, score) ==
    IF k > Len(keywords) THEN score
    ELSE KeywordLoopNoGuard(queryLower, words, keywords, k + 1,
                            score + WordLoop(words, keywords[k], 1))

\* The loop over the keywords of one intent; score is counted in half points.
RECURSIVE KeywordLoop(_, _, _, _, _)
KeywordLoop(queryLower, words, keywords, k, score) ==
    IF k > Len(keywords) THEN score
    ELSE IF Contains(queryLower, keywords[k])
         THEN LET s1 == score + WordLoop(words, keywords[k], 1)
                  s2 == IF s1 = 0 THEN 1 ELSE s1
              IN  KeywordLoop(queryLower, words, keywords, k + 1, s2)
         ELSE KeywordLoop(queryLower, words, keywords, k + 1, score)

\* scores[intent] = score / float64(len(keywords)), times Unit.
keywordScores(queryLower, words) ==
    [i \in Intents |->
        KeywordLoop(queryLower, words, intentPrototypes[i], 1, 0)
            * (Half \div Len(intentPrototypes[i]))]

applyHeuristicsNoStructure(q, scores) ==
    LET s1 == IF containsAny(q, <<"chart", "graph", "plot", "visualize">>)
              THEN [scores EXCEPT ![IntentVisualization] = @ + Unit] ELSE scores
        s3 == IF containsAny(q, <<"show", "display">>) /\ containsAny(q, <<"chart", "graph">>)
              THEN [s1 EXCEPT ![IntentVisualization] = @ + Half] ELSE s1
        s4 == IF (HasPrefix(q, "how many") \/ HasPrefix(q, "what is"))
                 /\ containsAny(q, <<"in the database", "in the table", "records", "rows">>)
              THEN [s3 EXCEPT ![IntentSQLQuery] = @ + Half] ELSE s3
    IN  s4

applyHeuristicsNoChartBoost(q, scores) ==
    LET s2 == IF containsAny(q, <<"table", "schema", "column", "database">>)
              THEN [scores EXCEPT ![IntentSQLQuery] = @ + Half] ELSE scores
        s3 == IF containsAny(q, <<"show", "display">>) /\ containsAny(q, <<"chart", "graph">>)
              THEN [s2 EXCEPT ![IntentVisualization] = @ + Half] ELSE s2
        s4 == IF (HasPrefix(q, "how many") \/ HasPrefix(q, "what is"))
                 /\ containsAny(q, <<"in the database", "in the table", "records", "rows">>)
              THEN [s3 EXCEPT ![IntentSQLQuery] = @ + Half] ELSE s3
    IN  s4

applyHeuristics(q, scores) ==
    LET s1 == IF containsAny(q, <<"chart", "graph", "plot", "visualize">>)
              THEN [scores EXCEPT ![IntentVisualization] = @ + Unit] ELSE scores
        s2 == IF containsAny(q, <<"table", "schema", "column", "database">>)
              THEN [s1 EXCEPT ![IntentSQLQuery] = @ + Half] ELSE s1
        s3 == IF containsAny(q, <<"show", "display">>) /\ containsAny(q, <<"chart", "graph">>)
              THEN [s2 EXCEPT ![IntentVisualization] = @ + Half] ELSE s2
        s4 == IF (HasPrefix(q, "how many") \/ HasPrefix(q, "what is"))
                 /\ containsAny(q, <<"in the database", "in the table", "records", "rows">>)
              THEN [s3 EXCEPT ![IntentSQLQuery] = @ + Half] ELSE s3
    IN  s4

\* The adjusted scores both Classify and ClassifyWithConfidence compute.
adjustedScores(q) ==
    LET queryLower == ToLower(q)
    IN  applyHeuristics(queryLower, keywordScores(queryLower, Fields(queryLower)))

\* The orders in which a range over a Go map of the three intents may visit it.
Orders == {o \in [1..3 -> Intents] : \A i, j \in 1..3 : i # j => o[i] # o[j]}

-----------------------------------------------------------------------------
(* The queries of the model: up to MaxPhrases phrases joined by single      *)
(* spaces.  "is" contains no keyword and is part of several; "schema" and   *)
(* "column" are in no vocabulary and trigger a heuristic.                   *)

Lexicon ==
    {"SELECT", "schema", "table", "column", "is", "sales", "Show me",
     "bar chart", "pie chart", "line graph", "How many rows",
     "help how", "help how explain what about"}

RECURSIVE Join(_)
Join(ws) ==
    IF ws = <<>> THEN ""
    ELSE IF Len(ws) = 1 THEN ws[1]
    ELSE ws[1] \o " " \o Join(Tail(ws))

Queries == {Join(ws) : ws \in UNION {[1..n -> Lexicon] : n \in 0..MaxPhrases}}

\* The scores map of a call on q.  adjustedScores is a function of the query
\* alone, so it is tabulated once over the queries of the model.
ScoreTable == [q \in Queries |-> adjustedScores(q)]

Scores(q) == ScoreTable[q]

\* Classify's loop "for intent, score := range scores": st = <<maxScore, bestIntent>>.
RECURSIVE FindBest(_, _, _, _)
FindBest(scores, order, k, st) ==
    IF k > Len(order) THEN st
    ELSE LET score == scores[order[k]]
         IN  IF score > st[1]
             THEN FindBest(scores, order, k + 1, <<score, order[k]>>)
             ELSE FindBest(scores, order, k + 1, st)

\* maxScore < 0.1
BelowThreshold(maxScore) == 10 * maxScore < Unit

Classify(q, order) ==
    LET st == FindBest(Scores(q), order, 1, <<0, IntentGeneral>>)
    IN  IF BelowThreshold(st[1]) THEN IntentGeneral ELSE st[2]

\* The loop without its second branch: secondScore is the best score left
\* behind by a better one.
RECURSIVE FindBestTwoNoRunnerUp(_, _, _, _)
FindBestTwoNoRunnerUp(scores, order, k, st) ==
    IF k > Len(order) THEN st
    ELSE LET score == scores[order[k]]
         IN  IF score > st[1]
             THEN FindBestTwoNoRunnerUp(scores, order, k + 1, <<score, st[1], order[k]>>)
             ELSE FindBestTwoNoRunnerUp(scores, order, k + 1, st)

\* ClassifyWithConfidence's loop: st = <<maxScore, secondScore, bestIntent>>.
RECURSIVE FindBestTwo(_, _, _, _)
FindBestTwo(scores, order, k, st) ==
    IF k > Len(order) THEN st
    ELSE LET score == scores[order[k]]
         IN  IF score > st[1]
             THEN FindBestTwo(scores, order, k + 1, <<score, st[1], order[k]>>)
             ELSE IF score > st[2]
                  THEN FindBestTwo(scores, order, k + 1, <<st[1], score, st[3]>>)
                  ELSE FindBestTwo(scores, order, k + 1, st)

ConfidenceOverSecond(maxScore, secondScore) ==
    IF maxScore > 0
    THEN IF secondScore > 0
         THEN <<maxScore - secondScore, secondScore>>
         ELSE IF maxScore < Unit THEN <<maxScore, Unit>> ELSE <<1, 1>>
    ELSE <<0, 1>>

\* The confidence as a fraction <<numerator, denominator>>.
Confidence(maxScore, secondScore) ==
    IF maxScore > 0
    THEN IF secondScore > 0
         THEN <<maxScore - secondScore, maxScore>>
         ELSE IF maxScore < Unit THEN <<maxScore, Unit>> ELSE <<1, 1>>
    ELSE <<0, 1>>

ClassifyWithConfidence(q, order) ==
    LET st == FindBestTwo(Scores(q), order, 1, <<0, 0, IntentGeneral>>)
    IN  IF BelowThreshold(st[1])
        THEN [intent |-> IntentGeneral, confidence |-> <<0, 1>>]
        ELSE [intent |-> st[3], confidence |-> Confidence(st[1], st[2])]

-----------------------------------------------------------------------------
(* package manager: the router                                              *)

dataIndicators ==
    <<"from database", "from table", "data from",
      "show me", "get", "fetch", "query",
      "sales", "users", "orders", "records">>

needsDataFetchCaseSensitive(q) == containsAny(q, dataIndicators)

needsDataFetch(q) == containsAny(ToLower(q), dataIndicators)

FetchTable == [q \in Queries |-> needsDataFetch(q)]

\* The Result ProcessQuery returns for a query classified as c, and its error.
Route(q, c) ==
    LET pipeline ==
            CASE c.intent = IntentSQLQuery ->
                   [agents |-> <<"SQLAgent">>, workflow |-> "sql_query"]
              [] c.intent = IntentVisualization ->
                   IF FetchTable[q]
                   THEN [agents |-> <<"SQLAgent", "ChartAgent">>, workflow |-> "sql_then_chart"]
                   ELSE [agents |-> <<"ChartAgent">>, workflow |-> "chart_only"]
              [] OTHER ->
                   [agents |-> <<"ManagerAgent">>, workflow |-> "general"]
    IN  [op |-> "ProcessQuery", intent |-> c.intent, confidence |-> c.confidence,
         agents |-> pipeline.agents, workflow |-> pipeline.workflow, err |-> "nil"]

-----------------------------------------------------------------------------
(* The classifier as a state machine: one query, any number of calls; the   *)
(* state keeps the results of the last two.                                 *)

\* The adapter at rest, in the specifications that are not about it.
AdapterIdle ==
    /\ req = [systemInstruction |-> Nil, contents |-> <<>>]
    /\ messages = <<>>
    /\ finalMessages = <<>>
    /\ converted = FALSE
    /\ schema = Nil
    /\ normalized = Nil
    /\ ToolsIdle
    /\ ResponseIdle
    /\ GenerateIdle
    /\ LoopIdle
    /\ ConcurrentIdle
    /\ ConfigIdle

InitClassifier ==
    /\ query \in Queries
    /\ out = None
    /\ prev = None
    /\ AdapterIdle

CallClassify ==
    /\ \E order \in Orders :
          out' = [op |-> "Classify", intent |-> Classify(query, order)]
    /\ prev' = out
    /\ UNCHANGED <<query, msgVars, schVars, toolVars, rspVars, genVars, loopVars, conVars, cfgVars>>

CallClassifyWithConfidence ==
    /\ \E order \in Orders :
          LET c == ClassifyWithConfidence(query, order)
          IN  out' = [op |-> "ClassifyWithConfidence", intent |-> c.intent,
                      confidence |-> c.confidence]
    /\ prev' = out
    /\ UNCHANGED <<query, msgVars, schVars, toolVars, rspVars, genVars, loopVars, conVars, cfgVars>>

CallProcessQuery ==
    /\ \E order \in Orders :
          out' = Route(query, ClassifyWithConfidence(query, order))
    /\ prev' = out
    /\ UNCHANGED <<query, msgVars, schVars, toolVars, rspVars, genVars, loopVars, conVars, cfgVars>>

NextClassifier ==
    \/ CallClassify
    \/ CallClassifyWithConfidence
    \/ CallProcessQuery

SpecClassifier == InitClassifier /\ [][NextClassifier]_vars

-----------------------------------------------------------------------------
(* package localllm: convertToMessages                                      *)

\* encoding/json.Marshal of a nil map, of an empty map and of a map of one
\* string entry (values that need no escaping).
Quote(str) == "\"" \o str \o "\""

Marshal(v) ==
    IF v = Nil THEN "null"
    ELSE IF DOMAIN v = {} THEN "{}"
    ELSE LET k == CHOOSE key \in DOMAIN v : TRUE
         IN  "{" \o Quote(k) \o ":" \o Quote(v[k]) \o "}"

\* chatMessage; a nil ToolCalls slice is the empty sequence.
chatMessage(role, content, toolCalls, toolCallId) ==
    [role |-> role, content |-> content, toolCalls |-> toolCalls, toolCallId |-> toolCallId]

\* The concatenated text of the system instruction's parts, "" without one.
sysText(r) ==
    IF r.systemInstruction = Nil THEN ""
    ELSE LET RECURSIVE Cat(_)
             Cat(k) == IF k > Len(r.systemInstruction.parts) THEN ""
                       ELSE r.systemInstruction.parts[k].text \o Cat(k + 1)
         IN  Cat(1)

systemMessages(r) ==
    IF sysText(r) # "" THEN <<chatMessage("system", sysText(r), <<>>, "")>> ELSE <<>>

\* The role of the turn kept for every role but "model".
wireRolePassThrough(content) ==
    IF content.role = "model" THEN "assistant" ELSE content.role

\* Lines 189-192: "user" unless the turn is of the model.
wireRole(content) == IF content.role = "model" THEN "assistant" ELSE "user"

\* The loop over content.Parts: textContent, funcCalls and funcResponses.
RECURSIVE textContent(_, _)
textContent(parts, k) ==
    IF k > Len(parts) THEN "" ELSE parts[k].text \o textContent(parts, k + 1)

RECURSIVE funcCalls(_, _)
funcCalls(parts, k) ==
    IF k > Len(parts) THEN <<>>
    ELSE (IF parts[k].functionCall # Nil
          THEN <<[id |-> parts[k].functionCall.id, type |-> "function",
                  function |-> [name |-> parts[k].functionCall.name,
                                arguments |-> Marshal(parts[k].functionCall.args)]]>>
          ELSE <<>>) \o funcCalls(parts, k + 1)

RECURSIVE funcResponses(_, _)
funcResponses(parts, k) ==
    IF k > Len(parts) THEN <<>>
    ELSE (IF parts[k].functionResponse # Nil
          THEN <<[id |-> parts[k].functionResponse.id,
                  name |-> parts[k].functionResponse.name,
                  response |-> Marshal(parts[k].functionResponse.response)]>>
          ELSE <<>>) \o funcResponses(parts, k + 1)

\* Every text in a message of its own.
canMergeNever(lastMsg, role) == FALSE

canMergeIgnoringToolCalls(lastMsg, role) ==
    lastMsg.role = role /\ lastMsg.toolCallId = ""

\* "Only merge if roles match and neither has tool calls/ids".
canMerge(lastMsg, role) ==
    lastMsg.role = role /\ lastMsg.toolCalls = <<>> /\ lastMsg.toolCallId = ""

\* "Add text or function call message" for one turn.
addTextOrCalls(msgs, content) ==
    LET role == wireRole(content)
        text == textContent(content.parts, 1)
        calls == funcCalls(content.parts, 1)
    IN  IF Len(calls) > 0
        THEN Append(msgs, chatMessage("assistant", text, calls, ""))
        ELSE IF text # ""
             THEN IF Len(msgs) > 0 /\ canMerge(msgs[Len(msgs)], role)
                  THEN [msgs EXCEPT ![Len(msgs)].content = @ \o "\n" \o text]
                  ELSE Append(msgs, chatMessage(role, text, <<>>, ""))
             ELSE msgs

\* "Add function response messages (tool results)" for one turn.
toolMessages(content) ==
    LET frs == funcResponses(content.parts, 1)
    IN  [k \in 1..Len(frs) |-> chatMessage("tool", frs[k].response, <<>>, frs[k].id)]

\* One iteration of "for _, content := range req.Contents".
convertTurn(msgs, content) == addTextOrCalls(msgs, content) \o toolMessages(content)

RECURSIVE convertTurns(_, _, _)
convertTurns(msgs, contents, k) ==
    IF k > Len(contents) THEN msgs
    ELSE convertTurns(convertTurn(msgs, contents[k]), contents, k + 1)

\* The list built by the loop over the turns, before the post-processing.
builtMessages(r) == convertTurns(systemMessages(r), r.contents, 1)

syntheticMessage == chatMessage("assistant", "Action completed.", <<>>, "")

RECURSIVE repairFrom(_, _, _)
repairFrom(msgs, k, final) ==
    IF k > Len(msgs) THEN final
    ELSE LET msg == msgs[k]
             inject == /\ msg.role = "user"
                       /\ Len(final) > 0
                       /\ final[Len(final)].role = "tool"
         IN  repairFrom(msgs, k + 1,
                        Append(IF inject THEN Append(final, syntheticMessage) ELSE final, msg))

noRepair(msgs) == msgs

\* An assistant message after every tool message that is not the last one.
RECURSIVE repairAfterEveryTool(_)
repairAfterEveryTool(msgs) ==
    IF Len(msgs) < 2 THEN msgs
    ELSE (IF msgs[1].role = "tool" THEN <<msgs[1], syntheticMessage>> ELSE <<msgs[1]>>)
             \o repairAfterEveryTool(Tail(msgs))

\* The post-processing pass: an assistant message between a tool message and
\* the user message that follows it.
alternationRepair(msgs) == repairFrom(msgs, 1, <<>>)

-----------------------------------------------------------------------------
(* The conversations of the model: up to MaxTurns turns, each one of Turns,  *)
(* with or without a system instruction.                                    *)

TextPart(t) == [text |-> t, functionCall |-> Nil, functionResponse |-> Nil]

CallPart(id, name, args) ==
    [text |-> "", functionCall |-> [id |-> id, name |-> name, args |-> args],
     functionResponse |-> Nil]

ResponsePart(id, name, response) ==
    [text |-> "", functionCall |-> Nil,
     functionResponse |-> [id |-> id, name |-> name, response |-> response]]

Turn(role, parts) == [role |-> role, parts |-> parts]

Turns ==
    {Turn("user", <<TextPart("hi")>>),
     Turn("user", <<TextPart("list"), TextPart(" tables")>>),
     Turn("user", <<>>),
     Turn("tool", <<TextPart("raw")>>),
     Turn("system", <<TextPart("be brief")>>),
     Turn("model", <<TextPart("ok")>>),
     Turn("model", <<TextPart("Action completed.")>>),
     Turn("model", <<CallPart("c1", "list_tables", <<>>)>>),
     Turn("model", <<TextPart("calling"), CallPart("c2", "query_database", [sql |-> "SELECT 1"])>>),
     Turn("user", <<ResponsePart("c1", "list_tables", [result |-> "users"])>>),
     Turn("user", <<ResponsePart("", "list_tables", Nil)>>),
     Turn("user", <<TextPart("done"), ResponsePart("c2", "query_database", <<>>)>>)}

SystemInstructions ==
    {Nil, [parts |-> <<>>], [parts |-> <<TextPart("You are "), TextPart("helpful")>>]}

Requests ==
    [systemInstruction : SystemInstructions,
     contents : UNION {[1..n -> Turns] : n \in 0..MaxTurns}]

\* The classifier at rest, in the specifications that are not about it.
ClassifierIdle ==
    /\ query = ""
    /\ out = None
    /\ prev = None

InitMessages ==
    /\ req \in Requests
    /\ messages = <<>>
    /\ finalMessages = <<>>
    /\ converted = FALSE
    /\ schema = Nil
    /\ normalized = Nil
    /\ ToolsIdle
    /\ ResponseIdle
    /\ GenerateIdle
    /\ LoopIdle
    /\ ConcurrentIdle
    /\ ConfigIdle
    /\ ClassifierIdle

\* convertToMessages(req), start to return.
ConvertToMessages ==
    /\ ~converted
    /\ messages' = builtMessages(req)
    /\ finalMessages' = alternationRepair(builtMessages(req))
    /\ converted' = TRUE
    /\ UNCHANGED <<req, clsVars, schVars, toolVars, rspVars, genVars, loopVars, conVars, cfgVars>>

NextMessages == ConvertToMessages

SpecMessages == InitMessages /\ [][NextMessages]_vars

-----------------------------------------------------------------------------
(* package localllm: normalizeSchema and fixSchemaMap.  A JSON value, as   *)
(* json.Unmarshal leaves it in an interface{}, is a tagged record: a       *)
(* string, a number, an array of values or an object, whose fields are a   *)
(* function from its keys to values.                                        *)

Str(str) == [kind |-> "string", val |-> str]
Num(digits) == [kind |-> "number", val |-> digits]
Arr(items) == [kind |-> "array", items |-> items]
Obj(fields) == [kind |-> "object", fields |-> fields]

\* The keys and the strings of the schemas of the model, and strings.ToLower
\* tabulated on them.
SchemaKeys == {"Type", "type", "Properties", "Foo"}
SchemaStrings == SchemaKeys \cup {"STRING", "string", "object", "X", "7", "properties", "foo", "x"}
LowerTable == [str \in SchemaStrings |-> ToLower(str)]
strings_ToLower(str) == LowerTable[str]

\* The functions that take some value of choices[key] at every key.
Choose(choices) ==
    {g \in [DOMAIN choices -> UNION {choices[key] : key \in DOMAIN choices}] :
        \A key \in DOMAIN choices : g[key] \in choices[key]}

\* fixSchemaMap without the case for "properties": every nested object alike.
RECURSIVE fixSchemaMapNoProperties(_)
fixSchemaMapNoProperties(m) ==
    LET written(k) ==
            LET key == strings_ToLower(k)
                v == m[k]
            IN  CASE v.kind = "string" ->
                       {IF key = "type" THEN Str(strings_ToLower(v.val)) ELSE v}
                  [] v.kind = "object" ->
                       {Obj(g) : g \in fixSchemaMapNoProperties(v.fields)}
                  [] OTHER -> {v}
        last(key) == UNION {written(k) : k \in {k2 \in DOMAIN m : strings_ToLower(k2) = key}}
    IN  Choose([key \in {strings_ToLower(k) : k \in DOMAIN m} |-> last(key)])

\* The maps fixSchemaMap(m) may return.  The loop ranges over a Go map, so
\* when two keys of m lower-case to the same key either may be written last.
RECURSIVE fixSchemaMap(_)
fixSchemaMap(m) ==
    LET newProps(val) ==
            LET kept(pk) == IF val[pk].kind = "object"
                            THEN {Obj(g) : g \in fixSchemaMap(val[pk].fields)}
                            ELSE {val[pk]}
            IN  Choose([pk \in DOMAIN val |-> kept(pk)])
        written(k) ==
            LET key == strings_ToLower(k)
                v == m[k]
            IN  CASE v.kind = "string" ->
                       {IF key = "type" THEN Str(strings_ToLower(v.val)) ELSE v}
                  [] v.kind = "object" ->
                       IF key = "properties"
                       THEN {Obj(g) : g \in newProps(v.fields)}
                       ELSE {Obj(g) : g \in fixSchemaMap(v.fields)}
                  [] OTHER -> {v}
        last(key) == UNION {written(k) : k \in {k2 \in DOMAIN m : strings_ToLower(k2) = key}}
    IN  Choose([key \in {strings_ToLower(k) : k \in DOMAIN m} |-> last(key)])

\* normalizeSchema: the JSON round trip of an object gives its map, which
\* fixSchemaMap rewrites; a value that is no object is returned as it is.
normalizeSchema(params) ==
    IF params.kind = "object"
    THEN {Obj(g) : g \in fixSchemaMap(params.fields)}
    ELSE {params}

-----------------------------------------------------------------------------
(* The schemas of the model: objects nested up to MaxDepth, each with one   *)
(* key, or with "Type" and a second key, or empty.                          *)

Scalars == {Str("STRING"), Str("string"), Num("7"), Arr(<<Obj("Type" :> Str("X"))>>)}

RECURSIVE Schemas(_)
Schemas(depth) ==
    IF depth = 0 THEN {}
    ELSE LET values == Scalars \cup Schemas(depth - 1)
         IN  {Obj(<<>>)}
             \cup {Obj(k :> v) : k \in SchemaKeys, v \in values}
             \cup {Obj(("Type" :> Str("object")) @@ (k :> v)) :
                      k \in SchemaKeys \ {"Type"}, v \in values}

InitSchema ==
    /\ schema \in Schemas(MaxDepth)
    /\ normalized = Nil
    /\ req = [systemInstruction |-> Nil, contents |-> <<>>]
    /\ messages = <<>>
    /\ finalMessages = <<>>
    /\ converted = FALSE
    /\ ToolsIdle
    /\ ResponseIdle
    /\ GenerateIdle
    /\ LoopIdle
    /\ ConcurrentIdle
    /\ ConfigIdle
    /\ ClassifierIdle

\* normalizeSchema(fd.Parameters), start to return.
NormalizeSchema ==
    /\ normalized = Nil
    /\ normalized' \in normalizeSchema(schema)
    /\ UNCHANGED <<schema, clsVars, msgVars, toolVars, rspVars, genVars, loopVars, conVars, cfgVars>>

NextSchema == NormalizeSchema

SpecSchema == InitSchema /\ [][NextSchema]_vars

-----------------------------------------------------------------------------
(* package localllm: convertToTools                                         *)

knownToolSchemas ==
    ("query_database" :>
        Obj(("type" :> Str("object"))
            @@ ("properties" :>
                   Obj(("sql" :>
                           Obj(("type" :> Str("string"))
                               @@ ("description" :> Str("The SQL query to execute"))))
                       @@ ("limit" :>
                           Obj(("type" :> Str("integer"))
                               @@ ("description" :>
                                      Str("Maximum number of rows to return (default: 100)"))))))
            @@ ("required" :> Arr(<<Str("sql")>>))))
    @@ ("get_schema" :>
        Obj(("type" :> Str("object"))
            @@ ("properties" :>
                   Obj("table_name" :>
                           Obj(("type" :> Str("string"))
                               @@ ("description" :>
                                      Str("The name of the table to get schema for")))))
            @@ ("required" :> Arr(<<Str("table_name")>>))))
    @@ ("list_tables" :>
        Obj(("type" :> Str("object")) @@ ("properties" :> Obj(<<>>))))
    @@ ("describe_database" :>
        Obj(("type" :> Str("object")) @@ ("properties" :> Obj(<<>>))))
    @@ ("generate_chart" :>
        Obj(("type" :> Str("object"))
            @@ ("properties" :>
                   Obj(("chart_type" :>
                           Obj(("type" :> Str("string"))
                               @@ ("description" :>
                                      Str("Type of chart: bar, line, pie, scatter"))))
                       @@ ("title" :>
                           Obj(("type" :> Str("string"))
                               @@ ("description" :> Str("Chart title"))))
                       @@ ("data" :>
                           Obj(("type" :> Str("string"))
                               @@ ("description" :>
                                      Str("JSON string containing the chart data"))))))
            @@ ("required" :> Arr(<<Str("chart_type"), Str("title"), Str("data")>>))))

emptyParams == Obj(("type" :> Str("object")) @@ ("properties" :> Obj(<<>>)))

toolDef(fd, params) ==
    [type |-> "function",
     function |-> [name |-> fd.name, description |-> fd.description, parameters |-> params]]

\* The loop body without the fallback for the known tools.
paramsOfNoFallback(fd) ==
    IF fd.parameters # Nil THEN normalizeSchema(fd.parameters) ELSE {emptyParams}

\* The values params may have when the tool definition of fd is appended.
paramsOf(fd) ==
    IF fd.parameters # Nil
    THEN normalizeSchema(fd.parameters)
    ELSE IF fd.name \in DOMAIN knownToolSchemas
         THEN {knownToolSchemas[fd.name]}
         ELSE {emptyParams}

\* A slice that is not nil; a nil slice is Nil.
Slice(items) == [items |-> items]

\* The function declarations the two loops visit, in their order.
RECURSIVE declarations(_, _)
declarations(tools, i) ==
    IF i > Len(tools) THEN <<>>
    ELSE (IF tools[i].functionDeclarations = Nil THEN <<>>
          ELSE tools[i].functionDeclarations.items) \o declarations(tools, i + 1)

\* The lists convertToTools may return; a nil slice is the empty sequence.
convertToTools(cfg) ==
    IF cfg = Nil \/ cfg.tools = Nil
    THEN {<<>>}
    ELSE LET fds == declarations(cfg.tools.items, 1)
         IN  {[i \in 1..Len(fds) |-> toolDef(fds[i], p[i])] :
                 p \in Choose([i \in 1..Len(fds) |-> paramsOf(fds[i])])}

-----------------------------------------------------------------------------
(* The tool configurations of the model.                                    *)

DeclNames == {"query_database", "list_tables", "Get_Schema", "lookup"}

DeclSchemas == {Obj(<<>>),
                Obj("Type" :> Str("STRING")),
                Obj(("Type" :> Str("object")) @@ ("type" :> Str("STRING")))}

FunctionDeclaration ==
    {[name |-> n, description |-> "about " \o n, parameters |-> p] :
        n \in DeclNames, p \in {Nil} \cup DeclSchemas}

DeclLists(max) == UNION {[1..n -> FunctionDeclaration] : n \in 0..max}

Tool(max) == {[functionDeclarations |-> fds] :
                 fds \in {Nil} \cup {Slice(items) : items \in DeclLists(max)}}

Configs ==
    {Nil, [tools |-> Nil], [tools |-> Slice(<<>>)]}
    \cup {[tools |-> Slice(<<t>>)] : t \in Tool(MaxDecls)}
    \cup {[tools |-> Slice(<<t1, t2>>)] : t1 \in Tool(1), t2 \in Tool(1)}

MessagesIdle ==
    /\ req = [systemInstruction |-> Nil, contents |-> <<>>]
    /\ messages = <<>>
    /\ finalMessages = <<>>
    /\ converted = FALSE

SchemaIdle ==
    /\ schema = Nil
    /\ normalized = Nil

InitTools ==
    /\ config \in Configs
    /\ toolDefs = <<>>
    /\ toolsDone = FALSE
    /\ ClassifierIdle
    /\ MessagesIdle
    /\ SchemaIdle
    /\ ResponseIdle
    /\ GenerateIdle
    /\ LoopIdle
    /\ ConcurrentIdle
    /\ ConfigIdle

\* convertToTools(req), start to return.
ConvertToTools ==
    /\ ~toolsDone
    /\ toolDefs' \in convertToTools(config)
    /\ toolsDone' = TRUE
    /\ UNCHANGED <<config, clsVars, msgVars, schVars, rspVars, genVars, loopVars, conVars, cfgVars>>

NextTools == ConvertToTools

SpecTools == InitTools /\ [][NextTools]_vars

-----------------------------------------------------------------------------
(* package localllm: convertToLLMResponse.  A Go int is 64 bits wide and    *)
(* is kept here as two digits in base Word, [hi, lo] standing for           *)
(* hi * Word + lo; an int32 is an integer.                                   *)

Word == 65536

Count(hi, lo) == [hi |-> hi, lo |-> lo]

\* A conversion that keeps the low 16 bits only.
int16(n) == IF n.lo < Word \div 2 THEN n.lo ELSE n.lo - Word

\* The conversion int32(n): the low 32 bits of n, read as a signed number.
int32(n) ==
    LET h == n.hi % Word
    IN  IF h < Word \div 2 THEN h * Word + n.lo ELSE (h - Word) * Word + n.lo

\* json.Marshal of a map with at most one entry, whose value is a string.
Encode(v) ==
    IF v = Nil THEN "null"
    ELSE IF DOMAIN v.fields = {} THEN "{}"
    ELSE LET k == CHOOSE key \in DOMAIN v.fields : TRUE
         IN  "{" \o Quote(k) \o ":" \o Quote(v.fields[k].val) \o "}"

\* The maps whose encodings are among the argument texts of the model.
ArgMaps == {Nil, Obj(<<>>), Obj("sql" :> Str("SELECT 1")), Obj("table_name" :> Str("users"))}

\* json.Unmarshal([]byte(text), &args) for args a nil map: the text of a map
\* (or of null) decodes to it; any other text is an error and leaves args nil.
Unmarshal(text) ==
    IF \E v \in ArgMaps : Encode(v) = text
    THEN [err |-> FALSE, args |-> CHOOSE v \in ArgMaps : Encode(v) = text]
    ELSE [err |-> TRUE, args |-> Nil]

\* genai.NewPartFromText and genai.NewPartFromFunctionCall.
NewPartFromText(text) == [text |-> text, functionCall |-> Nil]
NewPartFromFunctionCall(name, args) ==
    [text |-> "", functionCall |-> [id |-> "", name |-> name, args |-> args]]

\* The parts appended for the tool calls from the i-th on.
RECURSIVE callParts(_, _)
callParts(toolCalls, i) ==
    IF i > Len(toolCalls) THEN <<>>
    ELSE <<NewPartFromFunctionCall(toolCalls[i].function.name,
                                   Unmarshal(toolCalls[i].function.arguments).args)>>
         \o callParts(toolCalls, i + 1)

\* The zero value of model.LLMResponse.
emptyLLMResponse == [content |-> Nil, usageMetadata |-> Nil]

convertToLLMResponse(resp) ==
    IF Len(resp.choices) = 0
    THEN emptyLLMResponse
    ELSE LET choice == resp.choices[1]
             textParts == IF choice.message.content # ""
                          THEN <<NewPartFromText(choice.message.content)>>
                          ELSE <<>>
         IN  [content |-> [role |-> "model",
                           parts |-> textParts \o callParts(choice.message.toolCalls, 1)],
              usageMetadata |->
                  [promptTokenCount |-> int32(resp.usage.promptTokens),
                   candidatesTokenCount |-> int32(resp.usage.completionTokens),
                   totalTokenCount |-> int32(resp.usage.totalTokens)]]

-----------------------------------------------------------------------------
(* The chat responses of the model.                                         *)

ArgTexts == {Encode(v) : v \in ArgMaps} \cup {"", "not json", "[1]", "{\"sql\":"}

ToolCall == {[id |-> "call_1", type |-> "function",
              function |-> [name |-> "query_database", arguments |-> a]] : a \in ArgTexts}

ResponseMessage ==
    {[role |-> "assistant", content |-> c, toolCalls |-> tcs, toolCallId |-> ""] :
        c \in {"", "hello"},
        tcs \in UNION {[1..n -> ToolCall] : n \in 0..MaxCalls}}

Choice(index) ==
    {[index |-> index, message |-> m, finishReason |-> "stop"] : m \in ResponseMessage}

otherChoice ==
    [index |-> 1, finishReason |-> "stop",
     message |-> [role |-> "assistant", content |-> "second", toolCalls |-> <<>>,
                  toolCallId |-> ""]]

Usages ==
    {[promptTokens |-> Count(0, 0), completionTokens |-> Count(0, 0),
      totalTokens |-> Count(0, 0)],
     [promptTokens |-> Count(0, 7), completionTokens |-> Count(0, 5),
      totalTokens |-> Count(0, 12)],
     [promptTokens |-> Count(32767, 65535), completionTokens |-> Count(0, 1),
      totalTokens |-> Count(32768, 0)],
     [promptTokens |-> Count(65536, 5), completionTokens |-> Count(0, 2),
      totalTokens |-> Count(65536, 7)]}

ChatResponses ==
    {[id |-> "r1", choices |-> cs, usage |-> u] :
        cs \in {<<>>} \cup {<<c>> : c \in Choice(0)} \cup {<<c, otherChoice>> : c \in Choice(0)},
        u \in Usages}

InitResponse ==
    /\ chatResp \in ChatResponses
    /\ llmResp = None
    /\ ClassifierIdle
    /\ MessagesIdle
    /\ SchemaIdle
    /\ ToolsIdle
    /\ GenerateIdle
    /\ LoopIdle
    /\ ConcurrentIdle
    /\ ConfigIdle

\* convertToLLMResponse(&chatResp), start to return.
ConvertToLLMResponse ==
    /\ llmResp = None
    /\ llmResp' = convertToLLMResponse(chatResp)
    /\ UNCHANGED <<chatResp, clsVars, msgVars, schVars, toolVars, genVars, loopVars, conVars, cfgVars>>

NextResponse == ConvertToLLMResponse

SpecResponse == InitResponse /\ [][NextResponse]_vars

-----------------------------------------------------------------------------
(* package localllm: GenerateContent.  One iteration of the sequence it     *)
(* returns runs from "idle" to "done"; it waits in "inflight" while         *)
(* client.Do is outstanding and stands in "received" between the return of  *)
(* client.Do and the reading of the response body.  The caller may cancel   *)
(* ctx at any time.  An error is its message.                                *)

StatusOK == 200

\* A float: a number of tenths, or NaN.
F(tenths) == [nan |-> FALSE, tenths |-> tenths]
NaN == [nan |-> TRUE, tenths |-> 0]

\* fmt.Errorf("<prefix>: %w", err)
Errorf(prefix, cause) == [msg |-> prefix \o ": " \o cause]

\* The arguments of one call of yield.
Yield(resp, err) == [resp |-> resp, err |-> err]

\* The chatRequest built from the call and the converted tools.
chatRequest(c, tools) ==
    [model |-> c.model,
     messages |-> alternationRepair(builtMessages(c.req)),
     temperature |-> IF c.config # Nil /\ c.config.temperature # Nil
                     THEN c.config.temperature
                     ELSE F(0),
     maxTokens |-> 0,
     stream |-> FALSE,
     tools |-> tools]

\* A json.Marshal that accepts every float.
marshalNeverFails(chatReq) == FALSE

\* json.Marshal(chatReq) returns an error: a float that JSON cannot express.
marshalFails(chatReq) == chatReq.temperature.nan

\* The JSON object json.Marshal(chatReq) writes; a field left out is Nil.
\* The omitempty fields are left out when they hold their zero value.
marshalRequest(chatReq) ==
    [model |-> chatReq.model,
     messages |-> chatReq.messages,
     temperature |-> IF chatReq.temperature = F(0) THEN Nil ELSE chatReq.temperature,
     max_tokens |-> IF chatReq.maxTokens = 0 THEN Nil ELSE [n |-> chatReq.maxTokens],
     stream |-> chatReq.stream,
     tools |-> IF Len(chatReq.tools) = 0 THEN Nil ELSE Slice(chatReq.tools)]

\* http.NewRequestWithContext parses the URL; a space in the host is an error.
validURL(url) == ~Contains(url, " ")

\* A request made without the caller's context.
ctxIgnored(at) == FALSE

\* ctx is cancelled.
ctxDone(at) == at # "never"

\* The text json would write for a chat response of the model.
encodeToolCalls(toolCalls) ==
    IF Len(toolCalls) = 0 THEN ""
    ELSE ",\"tool_calls\":[{\"id\":" \o Quote(toolCalls[1].id)
         \o ",\"type\":\"function\",\"function\":{\"name\":"
         \o Quote(toolCalls[1].function.name)
         \o ",\"arguments\":" \o Quote(toolCalls[1].function.arguments) \o "}}]"

encodeChoices(choices) ==
    IF Len(choices) = 0 THEN ""
    ELSE "{\"index\":0,\"message\":{\"role\":\"assistant\",\"content\":"
         \o Quote(choices[1].message.content)
         \o encodeToolCalls(choices[1].message.toolCalls)
         \o "},\"finish_reason\":\"stop\"}"

encodeResponse(resp) ==
    "{\"id\":" \o Quote(resp.id) \o ",\"choices\":[" \o encodeChoices(resp.choices)
    \o "],\"usage\":{\"prompt_tokens\":" \o ToString(resp.usage.promptTokens.lo)
    \o ",\"completion_tokens\":" \o ToString(resp.usage.completionTokens.lo)
    \o ",\"total_tokens\":" \o ToString(resp.usage.totalTokens.lo) \o "}}"

smallUsage ==
    [promptTokens |-> Count(0, 7), completionTokens |-> Count(0, 5),
     totalTokens |-> Count(0, 12)]

responseChoice(content, toolCalls) ==
    [index |-> 0, finishReason |-> "stop",
     message |-> [role |-> "assistant", content |-> content, toolCalls |-> toolCalls,
                  toolCallId |-> ""]]

\* The chat responses a backend of the model answers with.
BackendResponses ==
    {[id |-> "r0", choices |-> <<>>, usage |-> smallUsage],
     [id |-> "r1", choices |-> <<responseChoice("hello", <<>>)>>, usage |-> smallUsage],
     [id |-> "r2", usage |-> smallUsage,
      choices |-> <<responseChoice("",
                        <<[id |-> "call_1", type |-> "function",
                           function |-> [name |-> "list_tables", arguments |-> "{}"]]>>)>>]}

zeroChatResponse ==
    [id |-> "", choices |-> <<>>,
     usage |-> [promptTokens |-> Count(0, 0), completionTokens |-> Count(0, 0),
                totalTokens |-> Count(0, 0)]]

\* json.NewDecoder(resp.Body).Decode(&chatResp): the text of a chat response
\* decodes to it, "{}" to the zero chatResponse, and other text is an error.
decodeBody(body) ==
    IF body = "{}" THEN [err |-> "", chatResp |-> zeroChatResponse]
    ELSE IF \E r \in BackendResponses : encodeResponse(r) = body
    THEN [err |-> "", chatResp |-> CHOOSE r \in BackendResponses : encodeResponse(r) = body]
    ELSE IF body = ""
    THEN [err |-> "EOF", chatResp |-> zeroChatResponse]
    ELSE [err |-> "invalid character '<' looking for beginning of value",
          chatResp |-> zeroChatResponse]

\* convertToLLMResponse without the test for an empty choices list, reading a
\* zero choice.
convertToLLMResponseNoGuard(resp) ==
    IF Len(resp.choices) = 0
    THEN [content |-> [role |-> "model", parts |-> <<>>],
          usageMetadata |->
              [promptTokenCount |-> int32(resp.usage.promptTokens),
               candidatesTokenCount |-> int32(resp.usage.completionTokens),
               totalTokenCount |-> int32(resp.usage.totalTokens)]]
    ELSE convertToLLMResponse(resp)

\* What convertToLLMResponse gives GenerateContent.
decoded(resp) == convertToLLMResponse(resp)

statusError(status, body) ==
    [msg |-> "LLM request failed with status " \o ToString(status) \o ": " \o body]

\* Lines 156-164: decode the body and yield; readErr is the error the read of
\* the body met, "" when it met none.
decodeYields(body, readErr) ==
    IF readErr # ""
    THEN <<Yield(Nil, Errorf("failed to decode response", readErr))>>
    ELSE IF decodeBody(body).err # ""
    THEN <<Yield(Nil, Errorf("failed to decode response", decodeBody(body).err))>>
    ELSE <<Yield(decoded(decodeBody(body).chatResp), Nil)>>

\* Lines 150-164 with the return of line 153 left out.
finishYieldsNoReturn(resp, bodyRead, readErr) ==
    IF resp.status # StatusOK
    THEN <<Yield(Nil, statusError(resp.status, bodyRead))>> \o decodeYields(resp.body, readErr)
    ELSE decodeYields(resp.body, readErr)

\* Lines 150-164: the values yielded once client.Do has returned resp;
\* bodyRead is what io.ReadAll returned of the body.
finishYields(resp, bodyRead, readErr) ==
    IF resp.status # StatusOK
    THEN <<Yield(Nil, statusError(resp.status, bodyRead))>>
    ELSE decodeYields(resp.body, readErr)

-----------------------------------------------------------------------------
(* The calls and the backends of the model, and GenerateContent as a state  *)
(* machine.                                                                  *)

Temperatures == {F(0), F(7), F(20), NaN}

listTablesTool ==
    [functionDeclarations |->
        Slice(<<[name |-> "list_tables", description |-> "lists the tables",
                 parameters |-> Nil]>>)]

CallConfigs ==
    {Nil} \cup {[temperature |-> t, tools |-> tl] :
                   t \in {Nil} \cup Temperatures,
                   tl \in {Nil, Slice(<<listTablesTool>>)}}

Calls ==
    [req : {[systemInstruction |-> Nil,
             contents |-> <<Turn("user", <<TextPart("hi")>>)>>]},
     config : CallConfigs,
     stream : BOOLEAN,
     model : {"local-model"},
     baseURL : {"http://localhost:1234", "http://local host:1234"}]

Statuses == {StatusOK, 201, 204, 404, 500}

Bodies == {encodeResponse(r) : r \in BackendResponses}
          \cup {"{}", "", "<html>Bad Gateway</html>"}

\* What client.Do may return for a request that was sent and not cancelled:
\* a transport error or a response.
Outcomes ==
    {[err |-> "dial tcp: connection refused", status |-> 0, body |-> ""]}
    \cup {[err |-> "", status |-> st, body |-> b] : st \in Statuses, b \in Bodies}

InitGenerate ==
    /\ call \in Calls
    /\ pc = "idle"
    /\ wire = Nil
    /\ httpSent = 0
    /\ httpResp = Nil
    /\ yielded = <<>>
    /\ cancelledAt = "never"
    /\ iteration = 1
    /\ ClassifierIdle
    /\ MessagesIdle
    /\ SchemaIdle
    /\ ToolsIdle
    /\ ResponseIdle
    /\ LoopIdle
    /\ ConcurrentIdle
    /\ ConfigIdle

\* Lines 110-143: from the start of the iteration to the call of client.Do,
\* which returns at once when ctx is cancelled already.
Begin ==
    /\ pc = "idle"
    /\ \E tools \in convertToTools(call.config) :
          LET chatReq == chatRequest(call, tools)
          IN  IF marshalFails(chatReq)
              THEN /\ yielded' = <<Yield(Nil, Errorf("failed to marshal request",
                                                    "json: unsupported value: NaN"))>>
                   /\ pc' = "done"
                   /\ UNCHANGED <<wire, httpSent, httpResp>>
              ELSE IF ~validURL(call.baseURL \o "/v1/chat/completions")
              THEN /\ yielded' = <<Yield(Nil, Errorf("failed to create request",
                                                    "invalid character \" \" in host name"))>>
                   /\ pc' = "done"
                   /\ wire' = marshalRequest(chatReq)
                   /\ UNCHANGED <<httpSent, httpResp>>
              ELSE IF ctxDone(cancelledAt)
              THEN /\ yielded' = <<Yield(Nil, Errorf("failed to send request",
                                                    "context canceled"))>>
                   /\ pc' = "done"
                   /\ wire' = marshalRequest(chatReq)
                   /\ UNCHANGED <<httpSent, httpResp>>
              ELSE /\ pc' = "inflight"
                   /\ wire' = marshalRequest(chatReq)
                   /\ httpSent' = httpSent + 1
                   /\ UNCHANGED <<yielded, httpResp>>
    /\ UNCHANGED <<call, cancelledAt, iteration, clsVars, msgVars, schVars, toolVars, rspVars, loopVars, conVars, cfgVars>>

\* The caller cancels ctx.
Cancel ==
    /\ cancelledAt = "never"
    /\ cancelledAt' = pc
    /\ UNCHANGED <<call, pc, wire, httpSent, httpResp, yielded, iteration,
                   clsVars, msgVars, schVars, toolVars, rspVars, loopVars, conVars, cfgVars>>

\* Lines 143-147: client.Do returns, with the error of ctx when ctx was
\* cancelled while the request was outstanding.
DoReturns ==
    /\ pc = "inflight"
    /\ IF ctxDone(cancelledAt)
       THEN /\ yielded' = <<Yield(Nil, Errorf("failed to send request", "context canceled"))>>
            /\ pc' = "done"
            /\ UNCHANGED httpResp
       ELSE \E o \in Outcomes :
               /\ httpResp' = o
               /\ IF o.err # ""
                  THEN /\ yielded' = yielded \o <<Yield(Nil, Errorf("failed to send request", o.err))>>
                       /\ pc' = "done"
                  ELSE /\ pc' = "received"
                       /\ UNCHANGED yielded
    /\ UNCHANGED <<call, wire, httpSent, cancelledAt, iteration,
                   clsVars, msgVars, schVars, toolVars, rspVars, loopVars, conVars, cfgVars>>

\* Lines 148-164: the status test, the read of the body and the yield.  When
\* ctx was cancelled after client.Do returned, the read of the body may fail
\* or may still deliver what had arrived.
Finish ==
    /\ pc = "received"
    /\ \E cut \in (IF cancelledAt = "received" THEN BOOLEAN ELSE {FALSE}) :
          yielded' = yielded \o finishYields(httpResp,
                                             IF cut THEN "" ELSE httpResp.body,
                                             IF cut THEN "context canceled" ELSE "")
    /\ pc' = "done"
    /\ UNCHANGED <<call, wire, httpSent, httpResp, cancelledAt, iteration,
                   clsVars, msgVars, schVars, toolVars, rspVars, loopVars, conVars, cfgVars>>

\* The caller ranges over the same sequence again.
Iterate ==
    /\ pc = "done"
    /\ iteration < MaxIterations
    /\ iteration' = iteration + 1
    /\ pc' = "idle"
    /\ wire' = Nil
    /\ httpSent' = 0
    /\ httpResp' = Nil
    /\ yielded' = <<>>
    /\ cancelledAt' = IF cancelledAt = "never" THEN "never" ELSE "idle"
    /\ UNCHANGED <<call, clsVars, msgVars, schVars, toolVars, rspVars, loopVars, conVars, cfgVars>>

NextGenerate == Begin \/ Cancel \/ DoReturns \/ Finish \/ Iterate

SpecGenerate == InitGenerate /\ [][NextGenerate]_vars

-----------------------------------------------------------------------------
(* cmd/main.go: the interactive loop.  What it prints is kept without the   *)
(* pictographs and the line breaks of the format strings.                   *)

\* strings.TrimSpace
RECURSIVE TrimLeft(_)
TrimLeft(str) ==
    IF Len(str) > 0 /\ IsSpace(CharAt(str, 1))
    THEN TrimLeft(SubSeq(str, 2, Len(str)))
    ELSE str

RECURSIVE TrimRight(_)
TrimRight(str) ==
    IF Len(str) > 0 /\ IsSpace(CharAt(str, Len(str)))
    THEN TrimRight(SubSeq(str, 1, Len(str) - 1))
    ELSE str

TrimSpace(str) == TrimRight(TrimLeft(str))

\* What adkRunner.Run hands to the loop: an error, or an event with the text
\* and the function call of its content.
RunError(msg) == [err |-> msg, text |-> "", functionCall |-> ""]
RunEvent(text, functionCall) == [err |-> "", text |-> text, functionCall |-> functionCall]

\* Lines 195-213 from the i-th value on: the lines printed and the text
\* gathered, up to the first error.
RECURSIVE rangeOverRun(_, _)
rangeOverRun(run, i) ==
    IF i > Len(run) THEN [printed |-> <<>>, responseText |-> ""]
    ELSE IF run[i].err # ""
    THEN [printed |-> <<"Error: " \o run[i].err>>, responseText |-> ""]
    ELSE LET rest == rangeOverRun(run, i + 1)
         IN  [printed |-> (IF run[i].functionCall # ""
                           THEN <<"[AGENT] Calling tool: " \o run[i].functionCall>>
                           ELSE <<>>) \o rest.printed,
              responseText |-> run[i].text \o rest.responseText]

\* Lines 182-220: what a pass prints for a query.
printedForQuery(run) ==
    <<"You: ", "Intent:", "Workflow:", "Agents:", "Processing...">>
    \o rangeOverRun(run, 1).printed
    \o (IF Len(rangeOverRun(run, 1).responseText) > 0
        THEN <<"Agent: " \o rangeOverRun(run, 1).responseText>>
        ELSE <<"No response generated.">>)

hasError(run) == \E i \in 1..Len(run) : run[i].err # ""

\* A loop that gives up at the first error of the runner.
afterRunFatal(run) == IF hasError(run) THEN "ended" ELSE "prompt"

\* Where the loop stands after the pass for a query.
afterRun(run) == "prompt"

-----------------------------------------------------------------------------
(* The sessions of the model.                                               *)

Line(text) == [kind |-> "line", text |-> text]

\* What standard input may hold: lines, a line longer than the buffer of the
\* scanner, and a failure of the read.
StdinItems ==
    {Line(t) : t \in {"", "  ", "how many users", "quit", "exit", " quit ", "QUIT",
                      "quit now"}}
    \cup {[kind |-> "tooLong", text |-> ""], [kind |-> "readError", text |-> ""]}

RunItems == {RunError("failed to send request: connection refused"),
             RunEvent("42 users", ""),
             RunEvent("", "query_database"),
             RunEvent("", "")}

Runs == UNION {[1..n -> RunItems] : n \in 0..2}

InitLoop ==
    /\ stdin \in UNION {[1..n -> StdinItems] : n \in 0..MaxLines}
    /\ scanned = None
    /\ loopPc = "prompt"
    /\ output = <<>>
    /\ lastRun = <<>>
    /\ errorsSeen = 0
    /\ ctxCancelled = FALSE
    /\ ConcurrentIdle
    /\ ConfigIdle
    /\ ClassifierIdle
    /\ MessagesIdle
    /\ SchemaIdle
    /\ ToolsIdle
    /\ ResponseIdle
    /\ GenerateIdle

\* Lines 167-170 and 223-225: scanner.Scan() returns false, at the end of the
\* input or on an error.
ScanFails ==
    /\ loopPc = "prompt"
    /\ IF stdin = <<>> THEN TRUE ELSE Head(stdin).kind # "line"
    /\ scanned' = IF stdin = <<>> THEN [kind |-> "eof", text |-> ""] ELSE Head(stdin)
    /\ stdin' = <<>>
    /\ loopPc' = "ended"
    /\ output' = <<"You: ">> \o (IF stdin = <<>> THEN <<>> ELSE <<"Scanner error">>)
    /\ lastRun' = <<>>
    /\ UNCHANGED <<errorsSeen, clsVars, msgVars, schVars, toolVars, rspVars, genVars,
                   ctxCancelled, conVars, cfgVars>>

\* Lines 167-175: an empty line, after trimming.
BlankLine ==
    /\ loopPc = "prompt"
    /\ stdin # <<>>
    /\ Head(stdin).kind = "line"
    /\ TrimSpace(Head(stdin).text) = ""
    /\ scanned' = Head(stdin)
    /\ stdin' = Tail(stdin)
    /\ output' = <<"You: ">>
    /\ lastRun' = <<>>
    /\ UNCHANGED <<loopPc, errorsSeen, clsVars, msgVars, schVars, toolVars, rspVars, genVars,
                   ctxCancelled, conVars, cfgVars>>

\* Lines 167-180: quit or exit.
Quit ==
    /\ loopPc = "prompt"
    /\ stdin # <<>>
    /\ Head(stdin).kind = "line"
    /\ TrimSpace(Head(stdin).text) \in {"quit", "exit"}
    /\ scanned' = Head(stdin)
    /\ stdin' = Tail(stdin)
    /\ loopPc' = "ended"
    /\ output' = <<"You: ", "Goodbye!">>
    /\ lastRun' = <<>>
    /\ UNCHANGED <<errorsSeen, clsVars, msgVars, schVars, toolVars, rspVars, genVars,
                   ctxCancelled, conVars, cfgVars>>

\* Lines 167-221: a query, through the manager agent and the runner.
Query ==
    /\ loopPc = "prompt"
    /\ stdin # <<>>
    /\ Head(stdin).kind = "line"
    /\ TrimSpace(Head(stdin).text) \notin {"", "quit", "exit"}
    /\ \E run \in Runs :
          /\ lastRun' = run
          /\ output' = printedForQuery(run)
          /\ errorsSeen' = errorsSeen + (IF hasError(run) THEN 1 ELSE 0)
          /\ loopPc' = afterRun(run)
    /\ scanned' = Head(stdin)
    /\ stdin' = Tail(stdin)
    /\ UNCHANGED <<clsVars, msgVars, schVars, toolVars, rspVars, genVars,
                   ctxCancelled, conVars, cfgVars>>

\* Lines 30-37: the goroutine receives SIGINT or SIGTERM from sigChan, prints
\* and calls cancel(); it receives once.  The loop reads ctx nowhere.
Signal ==
    /\ loopPc = "prompt"
    /\ ~ctxCancelled
    /\ ctxCancelled' = TRUE
    /\ output' = Append(output, "Shutting down...")
    /\ UNCHANGED <<stdin, scanned, loopPc, lastRun, errorsSeen, clsVars, msgVars, schVars,
                   toolVars, rspVars, genVars, conVars, cfgVars>>

NextLoop == ScanFails \/ BlankLine \/ Quit \/ Query \/ Signal

SpecLoop == InitLoop /\ [][NextLoop]_vars

-----------------------------------------------------------------------------
(* package bert: calls of Classify and ClassifyWithConfidence on one        *)
(* Classifier from several goroutines.  A step of a goroutine is one        *)
(* iteration of the range over c.intentPrototypes, the call of              *)
(* applyHeuristics, or the range over scores with the return.               *)

Goroutines == 1..MaxGoroutines

\* A key that is not in a score map.
Absent == -1

\* make(map[Intent]float64)
emptyScores == [i \in Intents |-> Absent]

\* scores[i] of a Go map: the zero value for a key that is not in it.
scoreAt(scores, i) == IF scores[i] = Absent THEN 0 ELSE scores[i]

\* One map for all the calls, kept in the Classifier.
scoreMapShared(g) == 1

\* "scores := make(map[Intent]float64)": the map of a call is a local of it.
scoreMap(g) == g

\* The queries of the concurrent calls.
ConcurrentQueries == {"bar chart", "SELECT table", "help how"}

\* strings.ToLower and strings.Fields of those queries, and their scores on
\* the keywords of NewClassifier, computed once.
LocalsTable ==
    [q \in ConcurrentQueries |->
        [queryLower |-> ToLower(q), words |-> Fields(ToLower(q)),
         scores |-> keywordScores(ToLower(q), Fields(ToLower(q)))]]

\* The body of the range over c.intentPrototypes for one intent, on the
\* keywords the shared map holds for it.
scoreOf(q, intent, keywords) ==
    IF keywords = intentPrototypes[intent]
    THEN LocalsTable[q].scores[intent]
    ELSE KeywordLoop(LocalsTable[q].queryLower, LocalsTable[q].words, keywords, 1, 0)
             * (Half \div Len(keywords))

\* The range over scores and the return of Classify.
pickClassify(scores, order) ==
    LET st == FindBest(scores, order, 1, <<0, IntentGeneral>>)
    IN  [op |-> "Classify",
         intent |-> IF BelowThreshold(st[1]) THEN IntentGeneral ELSE st[2]]

\* The range over scores and the return of ClassifyWithConfidence.
pickClassifyWithConfidence(scores, order) ==
    LET st == FindBestTwo(scores, order, 1, <<0, 0, IntentGeneral>>)
    IN  IF BelowThreshold(st[1])
        THEN [op |-> "ClassifyWithConfidence", intent |-> IntentGeneral,
              confidence |-> <<0, 1>>]
        ELSE [op |-> "ClassifyWithConfidence", intent |-> st[3],
              confidence |-> Confidence(st[1], st[2])]

notCalled ==
    [pc |-> "idle", op |-> "", query |-> "", queryLower |-> "", words |-> <<>>,
     todo |-> {}, overlapped |-> FALSE, result |-> None]

inFlight(g) == running[g].pc \in {"scoring", "heuristics", "picking"}

InitConcurrent ==
    /\ vocabulary = intentPrototypes
    /\ running = [g \in Goroutines |-> notCalled]
    /\ scoreMaps = [m \in Goroutines |-> emptyScores]
    /\ ConfigIdle
    /\ ClassifierIdle
    /\ MessagesIdle
    /\ SchemaIdle
    /\ ToolsIdle
    /\ ResponseIdle
    /\ GenerateIdle
    /\ LoopIdle

\* Lines 958-961 and 1048-1051: the locals of the call.
StartCall(g) ==
    /\ running[g].pc = "idle"
    /\ \E op \in {"Classify", "ClassifyWithConfidence"}, q \in ConcurrentQueries :
          running' = [h \in Goroutines |->
                        IF h = g
                        THEN [pc |-> "scoring", op |-> op, query |-> q,
                              queryLower |-> LocalsTable[q].queryLower,
                              words |-> LocalsTable[q].words,
                              todo |-> Intents,
                              overlapped |-> \E k \in Goroutines \ {g} : inFlight(k),
                              result |-> None]
                        ELSE IF inFlight(h)
                             THEN [running[h] EXCEPT !.overlapped = TRUE]
                             ELSE running[h]]
    /\ scoreMaps' = [scoreMaps EXCEPT ![scoreMap(g)] = emptyScores]
    /\ UNCHANGED <<vocabulary, cfgVars, clsVars, msgVars, schVars, toolVars, rspVars,
                   genVars, loopVars>>

\* Lines 964-984 and 1054-1070: one iteration of the range over
\* c.intentPrototypes, in any order of the intents.
ScoreIntent(g) ==
    /\ running[g].pc = "scoring"
    /\ \E i \in running[g].todo :
          /\ scoreMaps' = [scoreMaps EXCEPT ![scoreMap(g)][i] =
                              scoreOf(running[g].query, i, vocabulary[i])]
          /\ running' = [running EXCEPT
                            ![g].todo = @ \ {i},
                            ![g].pc = IF running[g].todo = {i} THEN "heuristics" ELSE @]
    /\ UNCHANGED <<vocabulary, cfgVars, clsVars, msgVars, schVars, toolVars, rspVars,
                   genVars, loopVars>>

\* Lines 987 and 1072: scores = c.applyHeuristics(queryLower, scores).
ApplyHeuristics(g) ==
    /\ running[g].pc = "heuristics"
    /\ scoreMaps' = [scoreMaps EXCEPT ![scoreMap(g)] =
                        applyHeuristics(running[g].queryLower,
                                        [i \in Intents |-> scoreAt(@, i)])]
    /\ running' = [running EXCEPT ![g].pc = "picking"]
    /\ UNCHANGED <<vocabulary, cfgVars, clsVars, msgVars, schVars, toolVars, rspVars,
                   genVars, loopVars>>

\* Lines 990-1005 and 1075-1104: the range over scores and the return.
Return(g) ==
    /\ running[g].pc = "picking"
    /\ \E order \in Orders :
          LET scores == [i \in Intents |-> scoreAt(scoreMaps[scoreMap(g)], i)]
          IN  running' = [running EXCEPT
                             ![g].pc = "returned",
                             ![g].result =
                                 IF running[g].op = "Classify"
                                 THEN pickClassify(scores, order)
                                 ELSE pickClassifyWithConfidence(scores, order)]
    /\ UNCHANGED <<vocabulary, scoreMaps, cfgVars, clsVars, msgVars, schVars, toolVars,
                   rspVars, genVars, loopVars>>

NextConcurrent ==
    \E g \in Goroutines :
        \/ StartCall(g)
        \/ ScoreIntent(g)
        \/ ApplyHeuristics(g)
        \/ Return(g)

SpecConcurrent == InitConcurrent /\ [][NextConcurrent]_vars

-----------------------------------------------------------------------------
(* package config and the start of main: the configuration is read from the *)
(* environment, validated, and the back end is built from it.               *)

LLMProviderGemini == "gemini"
LLMProviderLocal == "local"

ErrMissingDatabaseURL == "DATABASE_URL environment variable is required"
ErrMissingAPIKey == "GOOGLE_API_KEY environment variable is required when using Gemini"
ErrMissingLocalLLMURL == "LOCAL_LLM_URL environment variable is required when using local LLM"

\* os.Getenv gives "" for a variable that is not set.
getEnvOrDefault(env, key, defaultVal) == IF env[key] # "" THEN env[key] ELSE defaultVal

\* config.New()
New(env) ==
    LET provider == getEnvOrDefault(env, "LLM_PROVIDER", "gemini")
    IN  [DatabaseURL |-> env["DATABASE_URL"],
         LLMProvider |-> provider,
         GoogleAPIKey |-> env["GOOGLE_API_KEY"],
         Model |-> IF env["LLM_MODEL"] # "" THEN env["LLM_MODEL"]
                   ELSE IF provider = LLMProviderGemini THEN "gemini-2.0-flash"
                   ELSE "local-model",
         LocalLLMURL |-> getEnvOrDefault(env, "LOCAL_LLM_URL", "http://localhost:1234"),
         MCPServerAddr |-> getEnvOrDefault(env, "MCP_SERVER_ADDR", "localhost:9000")]

\* Config.Validate: the error, "nil" for none.
Validate(c) ==
    IF c.DatabaseURL = "" THEN ErrMissingDatabaseURL
    ELSE IF c.LLMProvider = LLMProviderGemini /\ c.GoogleAPIKey = "" THEN ErrMissingAPIKey
    ELSE IF c.LLMProvider = LLMProviderLocal /\ c.LocalLLMURL = "" THEN ErrMissingLocalLLMURL
    ELSE "nil"

IsLocalLLM(c) == c.LLMProvider = LLMProviderLocal

\* The environments of the model.
EnvValues(key) ==
    CASE key = "DATABASE_URL" -> {"", "postgres://localhost/app"}
      [] key = "LLM_PROVIDER" -> {"", "gemini", "local", "openai", "Local"}
      [] key = "GOOGLE_API_KEY" -> {"", "secret"}
      [] key = "LLM_MODEL" -> {"", "mistral"}
      [] key = "LOCAL_LLM_URL" -> {"", "http://llm:8080"}
      [] OTHER -> {""}

EnvKeys ==
    {"DATABASE_URL", "LLM_PROVIDER", "GOOGLE_API_KEY", "LLM_MODEL", "LOCAL_LLM_URL",
     "MCP_SERVER_ADDR"}

InitConfig ==
    /\ environ \in {env \in [EnvKeys -> UNION {EnvValues(key) : key \in EnvKeys}] :
                       \A key \in EnvKeys : env[key] \in EnvValues(key)}
    /\ loaded = Nil
    /\ backend = "none"
    /\ ConcurrentIdle
    /\ ClassifierIdle
    /\ MessagesIdle
    /\ SchemaIdle
    /\ ToolsIdle
    /\ ResponseIdle
    /\ GenerateIdle
    /\ LoopIdle

\* main, line 40: cfg := config.New().
LoadConfig ==
    /\ loaded = Nil
    /\ loaded' = New(environ)
    /\ UNCHANGED <<environ, backend, conVars, clsVars, msgVars, schVars, toolVars, rspVars,
                   genVars, loopVars>>

\* main, lines 41-43: log.Fatalf on an error of cfg.Validate().
ValidateConfig ==
    /\ loaded # Nil
    /\ backend = "none"
    /\ backend' = IF Validate(loaded) = "nil" THEN "validated" ELSE "fatal"
    /\ UNCHANGED <<environ, loaded, conVars, clsVars, msgVars, schVars, toolVars, rspVars,
                   genVars, loopVars>>

\* main, lines 48-66: the local adapter, or the Gemini client, which
\* gemini.NewModel may fail to build.
SelectBackend ==
    /\ backend = "validated"
    /\ IF IsLocalLLM(loaded)
       THEN backend' = "localllm"
       ELSE backend' \in {"gemini", "fatal"}
    /\ UNCHANGED <<environ, loaded, conVars, clsVars, msgVars, schVars, toolVars, rspVars,
                   genVars, loopVars>>

NextConfig == LoadConfig \/ ValidateConfig \/ SelectBackend

SpecConfig == InitConfig /\ [][NextConfig]_vars

-----------------------------------------------------------------------------
(* Properties of the classifier and the router, under SpecClassifier.       *)

QueryLower == ToLower(query)

KeywordOf(intent) == containsAny(QueryLower, intentPrototypes[intent])

NoKeyword == \A i \in Intents : ~KeywordOf(i)

IsZero(c) == c[1] = 0

\* C1: ClassifyWithConfidence returns one of the three intents and a
\* confidence c with 0 <= c <= 1, whatever the order the scores are visited in.
C1_ConfidenceInRange ==
    out.op = "ClassifyWithConfidence" =>
        /\ out.intent \in Intents
        /\ out.confidence[2] > 0
        /\ 0 <= out.confidence[1]
        /\ out.confidence[1] <= out.confidence[2]

C1_Witness ==
    /\ out.op = "ClassifyWithConfidence"
    /\ 0 < out.confidence[1]
    /\ out.confidence[1] < out.confidence[2]

\* C2 as stated: a query in which no keyword of any vocabulary occurs is
\* classified General with confidence 0, heuristic-only words included.
C2_NoKeywordIsGeneral ==
    (out.op = "ClassifyWithConfidence" /\ NoKeyword) =>
        (out.intent = IntentGeneral /\ IsZero(out.confidence))

\* C2 amended: a query in which no keyword of any vocabulary occurs and which
\* contains neither "schema" nor "column" is classified General with
\* confidence 0.
C2_NoKeywordNoStructureIsGeneral ==
    (/\ out.op = "ClassifyWithConfidence"
     /\ NoKeyword
     /\ ~containsAny(QueryLower, <<"schema", "column">>)) =>
        (out.intent = IntentGeneral /\ IsZero(out.confidence))

C2_Witness ==
    /\ out.op = "ClassifyWithConfidence"
    /\ query # ""
    /\ NoKeyword
    /\ ~containsAny(QueryLower, <<"schema", "column">>)
    /\ out.intent = IntentGeneral

\* C3 as stated: a query that contains "select", "schema" or "table" and no
\* chart vocabulary (no keyword of the visualization vocabulary at all) is
\* classified SQLQuery by Classify.
C3_SQLVocabularyIsSQL ==
    (/\ out.op = "Classify"
     /\ containsAny(QueryLower, <<"select", "schema", "table">>)
     /\ ~KeywordOf(IntentVisualization)) =>
        out.intent = IntentSQLQuery

C3_Precondition ==
    /\ \/ containsAny(QueryLower, <<"schema", "table">>)
       \/ /\ Contains(QueryLower, "select")
          /\ 10 * Scores(query)[IntentSQLQuery] >= Unit
    /\ ~KeywordOf(IntentVisualization)
    /\ ~KeywordOf(IntentGeneral)

\* C3 amended: a query that contains "schema" or "table", or contains
\* "select" and has an SQL score of at least 0.1, and that contains no
\* keyword of the visualization or of the general vocabulary, is classified
\* SQLQuery by Classify.
C3_SQLVocabularyAloneIsSQL ==
    (out.op = "Classify" /\ C3_Precondition) => out.intent = IntentSQLQuery

C3_Witness ==
    /\ out.op = "Classify"
    /\ C3_Precondition
    /\ ~containsAny(QueryLower, <<"schema", "table">>)
    /\ out.intent = IntentSQLQuery

ChartPhrase == containsAny(QueryLower, <<"bar chart", "pie chart", "line graph">>)

\* C4 as stated: a query that contains "bar chart", "pie chart" or "line
\* graph" is classified Visualization by Classify, whatever else it contains.
C4_ChartPhraseIsVisualization ==
    (out.op = "Classify" /\ ChartPhrase) => out.intent = IntentVisualization

\* C4 amended: for a query that contains "bar chart", "pie chart" or "line
\* graph" the adjusted Visualization score is at least 1 + 2/18, and Classify
\* returns Visualization whenever that score exceeds the two other adjusted
\* scores, which it does whenever the query contains no keyword of the SQL
\* and of the general vocabulary.
C4_ChartPhraseWinsUnlessOutscored ==
    (out.op = "Classify" /\ ChartPhrase) =>
        LET s == Scores(query)
        IN  /\ 18 * s[IntentVisualization] >= 20 * Unit
            /\ (s[IntentVisualization] > s[IntentSQLQuery]
                /\ s[IntentVisualization] > s[IntentGeneral])
                   => out.intent = IntentVisualization
            /\ (~KeywordOf(IntentSQLQuery) /\ ~KeywordOf(IntentGeneral))
                   => out.intent = IntentVisualization

C4_Witness ==
    /\ out.op = "Classify"
    /\ ChartPhrase
    /\ KeywordOf(IntentSQLQuery)
    /\ out.intent = IntentVisualization

\* C5: two calls of Classify, or of ClassifyWithConfidence, on the same query
\* return the same intent.
C5_SameQuerySameIntent ==
    (out.op = prev.op /\ out.op \in {"Classify", "ClassifyWithConfidence"}) =>
        out.intent = prev.intent

C6_DataSourcePhrases ==
    {"from database", "from table", "data from", "show me", "get", "fetch",
     "query", "sales", "users", "orders", "records"}

\* C6: ProcessQuery returns a nil error and the pipeline of the classified
\* intent: SQLQuery -> [SQLAgent], "sql_query"; Visualization -> [SQLAgent,
\* ChartAgent], "sql_then_chart" when the lower-cased query contains a
\* data-source phrase and [ChartAgent], "chart_only" otherwise; General ->
\* [ManagerAgent], "general".
C6_Pipeline ==
    out.op = "ProcessQuery" =>
        /\ out.err = "nil"
        /\ out.intent \in Intents
        /\ out.intent = IntentSQLQuery =>
              (out.agents = <<"SQLAgent">> /\ out.workflow = "sql_query")
        /\ out.intent = IntentVisualization =>
              IF \E ph \in C6_DataSourcePhrases : Contains(QueryLower, ph)
              THEN out.agents = <<"SQLAgent", "ChartAgent">> /\ out.workflow = "sql_then_chart"
              ELSE out.agents = <<"ChartAgent">> /\ out.workflow = "chart_only"
        /\ out.intent = IntentGeneral =>
              (out.agents = <<"ManagerAgent">> /\ out.workflow = "general")

C6_Witness ==
    /\ out.op = "ProcessQuery"
    /\ out.workflow = "sql_then_chart"
    /\ \A ph \in C6_DataSourcePhrases : ~Contains(query, ph)

-----------------------------------------------------------------------------
(* Properties of convertToMessages, under SpecMessages.                     *)

NTurns == Len(req.contents)

\* The request cut after its first k turns.
Prefix(k) == [req EXCEPT !.contents = SubSeq(req.contents, 1, k)]

\* A turn that carries non-empty text and neither calls nor responses.
PlainText(content) ==
    /\ \A k \in 1..Len(content.parts) :
          /\ content.parts[k].functionCall = Nil
          /\ content.parts[k].functionResponse = Nil
    /\ \E k \in 1..Len(content.parts) : content.parts[k].text # ""

TextOf(content) == textContent(content.parts, 1)

\* The last two turns are plain text turns of the same wire role.
C7_TextPair ==
    /\ converted
    /\ NTurns >= 2
    /\ PlainText(req.contents[NTurns - 1])
    /\ PlainText(req.contents[NTurns])
    /\ wireRole(req.contents[NTurns - 1]) = wireRole(req.contents[NTurns])

\* A message list ends with a plain text message of this role.
C7_EndsMergeable(msgs, role) ==
    /\ msgs # <<>>
    /\ msgs[Len(msgs)].role = role
    /\ msgs[Len(msgs)].toolCalls = <<>>
    /\ msgs[Len(msgs)].toolCallId = ""

\* Merging rule: a plain text turn adds no message if and only if the
\* message before it has its role, no toolCalls and no toolCallId.
C7_MergeRule ==
    (converted /\ NTurns >= 1 /\ PlainText(req.contents[NTurns])) =>
        LET before == builtMessages(Prefix(NTurns - 1))
        IN  /\ Len(messages) = Len(before)
                <=> C7_EndsMergeable(before, wireRole(req.contents[NTurns]))
            /\ Len(messages) # Len(before) => Len(messages) = Len(before) + 1

ToolThenUser == {i \in 1..(Len(messages) - 1) :
                    messages[i].role = "tool" /\ messages[i + 1].role = "user"}

\* C8: in the returned list no user message directly follows a tool message;
\* wherever the built list has a tool message directly followed by a user
\* message, the returned list has exactly one assistant message with the
\* placeholder content between the two.
C8_AssistantBetweenToolAndUser ==
    converted =>
        /\ \A i \in 2..Len(finalMessages) :
              finalMessages[i].role = "user" => finalMessages[i - 1].role # "tool"
        /\ Len(finalMessages) = Len(messages) + Cardinality(ToolThenUser)
        /\ \A i \in ToolThenUser :
              LET j == i + Cardinality({h \in ToolThenUser : h < i})
              IN  /\ finalMessages[j] = messages[i]
                  /\ finalMessages[j + 1] =
                        [role |-> "assistant", content |-> "Action completed.",
                         toolCalls |-> <<>>, toolCallId |-> ""]
                  /\ finalMessages[j + 2] = messages[i + 1]

C8_Witness ==
    /\ converted
    /\ Cardinality(ToolThenUser) >= 2

\* C9: every tool message of the returned list carries a non-empty
\* toolCallId that is the id of a toolCalls entry of an assistant message
\* earlier in the list.
C9_ToolMessageAnswersEarlierCall ==
    converted =>
        \A i \in 1..Len(finalMessages) :
            finalMessages[i].role = "tool" =>
                /\ finalMessages[i].toolCallId # ""
                /\ \E j \in 1..(i - 1) :
                      /\ finalMessages[j].role = "assistant"
                      /\ \E k \in 1..Len(finalMessages[j].toolCalls) :
                            finalMessages[j].toolCalls[k].id = finalMessages[i].toolCallId

-----------------------------------------------------------------------------
(* Properties of the schema normalization, under SpecSchema.                *)

C10_AllLower(str) ==
    \A i \in 1..Len(str) :
        \A j \in 1..Len(UpperLetters) : SubSeq(str, i, i) # SubSeq(UpperLetters, j, j)

\* w is v normalized, v being the value of a key that lower-cases to key.
RECURSIVE C10_Normalized(_, _, _)
C10_Normalized(key, v, w) ==
    CASE v.kind = "string" ->
           IF key = "type"
           THEN w.kind = "string" /\ C10_AllLower(w.val) /\ strings_ToLower(w.val) = strings_ToLower(v.val)
                /\ Len(w.val) = Len(v.val)
           ELSE w = v
      [] v.kind = "object" ->
           /\ w.kind = "object"
           /\ IF key = "properties"
              THEN \* the names under "properties" are kept, their objects normalized
                   /\ DOMAIN w.fields = DOMAIN v.fields
                   /\ \A name \in DOMAIN v.fields :
                         IF v.fields[name].kind = "object"
                         THEN C10_Normalized("", v.fields[name], w.fields[name])
                         ELSE w.fields[name] = v.fields[name]
              ELSE \* every key is lower-cased and holds the normalized value of
                   \* a key of v that lower-cases to it
                   /\ DOMAIN w.fields = {strings_ToLower(k) : k \in DOMAIN v.fields}
                   /\ \A k2 \in DOMAIN w.fields :
                         /\ C10_AllLower(k2)
                         /\ \E k \in DOMAIN v.fields :
                               /\ strings_ToLower(k) = k2
                               /\ C10_Normalized(k2, v.fields[k], w.fields[k2])
      [] OTHER -> w = v

C10_Example ==
    Obj(("Type" :> Str("object"))
        @@ ("Properties" :> Obj("Foo" :> Obj("Type" :> Str("string")))))

C10_ExampleNormalized ==
    Obj(("type" :> Str("object"))
        @@ ("properties" :> Obj("Foo" :> Obj("type" :> Str("string")))))

\* C10: normalization lower-cases every object key, lower-cases the string
\* value of a key that lower-cases to "type", keeps the names directly under
\* "properties" and normalizes their objects, normalizes every other nested
\* object alike and leaves arrays and scalars unchanged; the example schema
\* becomes {"type":"object","properties":{"Foo":{"type":"string"}}}.
C10_SchemaNormalized ==
    normalized # Nil =>
        /\ C10_Normalized("", schema, normalized)
        /\ schema = C10_Example => normalized = C10_ExampleNormalized

C10_Witness ==
    /\ schema = C10_Example
    /\ normalized = C10_ExampleNormalized

-----------------------------------------------------------------------------
(* Properties of convertToTools, under SpecTools.                           *)

\* The functions the configuration declares, in declaration order.
C11_Declared ==
    IF config = Nil \/ config.tools = Nil THEN <<>>
    ELSE declarations(config.tools.items, 1)

C11_BuiltIn ==
    {"query_database", "get_schema", "list_tables", "describe_database", "generate_chart"}

\* C11: convertToTools returns one definition of type "function" per declared
\* function, in declaration order, each with parameters: for an absent schema
\* the built-in schema of a built-in name and otherwise the empty-object
\* schema; for a present schema its normalized form.
C11_OneDefinitionPerDeclaration ==
    toolsDone =>
        /\ Len(toolDefs) = Len(C11_Declared)
        /\ \A i \in 1..Len(C11_Declared) :
              LET fd == C11_Declared[i]
                  def == toolDefs[i]
              IN  /\ def.type = "function"
                  /\ def.function.name = fd.name
                  /\ def.function.description = fd.description
                  /\ def.function.parameters # Nil
                  /\ IF fd.parameters # Nil
                     THEN C10_Normalized("", fd.parameters, def.function.parameters)
                     ELSE IF fd.name \in C11_BuiltIn
                          THEN /\ def.function.parameters = knownToolSchemas[fd.name]
                               /\ fd.name = "query_database" =>
                                     def.function.parameters.fields["required"] = Arr(<<Str("sql")>>)
                               /\ fd.name = "list_tables" =>
                                     def.function.parameters.fields["properties"] = Obj(<<>>)
                          ELSE def.function.parameters =
                                   Obj(("type" :> Str("object")) @@ ("properties" :> Obj(<<>>)))

C11_Witness ==
    /\ toolsDone
    /\ Len(toolDefs) = 2
    /\ C11_Declared[1].name = "query_database"
    /\ C11_Declared[1].parameters = Nil
    /\ C11_Declared[2].name = "Get_Schema"
    /\ C11_Declared[2].parameters # Nil
    /\ toolDefs[2].function.parameters = Obj("type" :> Str("string"))

-----------------------------------------------------------------------------
(* Properties of convertToLLMResponse, under SpecResponse.                  *)

\* The parts of the decoded content that are function calls, in order.
C13_Invocations ==
    IF llmResp.content = Nil THEN <<>>
    ELSE SelectSeq(llmResp.content.parts, LAMBDA part : part.functionCall # Nil)

\* Argument texts that are no JSON at all.
C13_Unparsable == {"", "not json", "{\"sql\":"}

\* C13: every tool call of the first choice gives exactly one decoded
\* invocation, in the same order, and a tool call whose argument text cannot
\* be parsed gives an invocation whose arguments are an empty object, never
\* nil.
C13_UnparsableArgumentsAreEmptyObject ==
    (llmResp # None /\ Len(chatResp.choices) > 0) =>
        LET calls == chatResp.choices[1].message.toolCalls
        IN  /\ Len(C13_Invocations) = Len(calls)
            /\ \A i \in 1..Len(calls) :
                  /\ C13_Invocations[i].functionCall.name = calls[i].function.name
                  /\ calls[i].function.arguments \in C13_Unparsable =>
                        C13_Invocations[i].functionCall.args = Obj(<<>>)

\* The int32 r is the count n.
C14_Equals(r, n) == n.hi < Word \div 2 /\ r = n.hi * Word + n.lo

\* The three pairs of a decoded counter and the count it comes from.
C14_Counters ==
    {<<llmResp.usageMetadata.promptTokenCount, chatResp.usage.promptTokens>>,
     <<llmResp.usageMetadata.candidatesTokenCount, chatResp.usage.completionTokens>>,
     <<llmResp.usageMetadata.totalTokenCount, chatResp.usage.totalTokens>>}

\* C14 as stated: the decoded usage counters equal prompt_tokens,
\* completion_tokens and total_tokens of the response, for any number of
\* choices and any counts; a decoded result without usage counts as zeros.
C14_UsageOneToOne ==
    llmResp # None =>
        IF llmResp.usageMetadata = Nil
        THEN /\ chatResp.usage.promptTokens = Count(0, 0)
             /\ chatResp.usage.completionTokens = Count(0, 0)
             /\ chatResp.usage.totalTokens = Count(0, 0)
        ELSE \A c \in C14_Counters : C14_Equals(c[1], c[2])

\* The int32 r and the count n have the same low 32 bits.
C14_SameLowBits(r, n) ==
    /\ r % Word = n.lo
    /\ ((r - n.lo) \div Word) % Word = n.hi % Word

\* C14 amended: a response without choices decodes to a result without usage
\* counters; for a response with a choice every decoded counter equals its
\* count when the count is below 2^31, and is its low 32 bits read as a
\* signed number otherwise.
C14_UsageOneToOneWithin32Bits ==
    llmResp # None =>
        IF Len(chatResp.choices) = 0
        THEN llmResp.usageMetadata = Nil
        ELSE /\ llmResp.usageMetadata # Nil
             /\ \A c \in C14_Counters :
                   /\ c[2].hi < Word \div 2 => C14_Equals(c[1], c[2])
                   /\ C14_SameLowBits(c[1], c[2])
                   /\ c[1] \div Word \in -(Word \div 2)..(Word \div 2 - 1)

C14_Witness ==
    /\ llmResp # None
    /\ Len(chatResp.choices) = 2
    /\ chatResp.usage.promptTokens = Count(32767, 65535)
    /\ llmResp.usageMetadata.promptTokenCount = 2147483647
    /\ llmResp.usageMetadata.totalTokenCount = -2147483647 - 1

-----------------------------------------------------------------------------
(* Properties of GenerateContent, under SpecGenerate.                       *)

\* client.Do returned a response, and ctx was not cancelled while its body
\* was read.
C12_ResponseRead ==
    /\ pc = "done"
    /\ httpResp # Nil
    /\ httpResp.err = ""
    /\ cancelledAt # "received"

\* Bodies that are chat responses without choices.
C12_NoChoices ==
    {"{}",
     "{\"id\":\"r0\",\"choices\":[],\"usage\":{\"prompt_tokens\":7,\"completion_tokens\":5,\"total_tokens\":12}}"}

\* C12: a chat response with zero choices decodes to an empty result, without
\* content parts, and no error.
C12_ZeroChoicesIsEmptyResult ==
    (C12_ResponseRead /\ httpResp.status = StatusOK /\ httpResp.body \in C12_NoChoices) =>
        /\ Len(yielded) = 1
        /\ yielded[1].err = Nil
        /\ yielded[1].resp = [content |-> Nil, usageMetadata |-> Nil]

C12_Witness ==
    /\ C12_ResponseRead
    /\ httpResp.status = StatusOK
    /\ httpResp.body \in C12_NoChoices \ {"{}"}
    /\ yielded = <<[resp |-> [content |-> Nil, usageMetadata |-> Nil], err |-> Nil]>>

\* C15: an iteration yields one value and sends at most one HTTP request; the
\* value is a response with a nil error or an error with a nil response,
\* whatever the stream argument.
C15_OneValuePerIteration ==
    /\ httpSent <= 1
    /\ Len(yielded) <= 1
    /\ pc = "done" <=> Len(yielded) = 1
    /\ \A i \in 1..Len(yielded) : (yielded[i].resp = Nil) # (yielded[i].err = Nil)

C15_Witness ==
    /\ pc = "done"
    /\ call.stream
    /\ iteration = 2
    /\ httpSent = 1
    /\ Len(yielded) = 1
    /\ yielded[1].resp # Nil

C16_Messages ==
    {"failed to marshal request", "failed to send request",
     "LLM request failed with status", "failed to decode response"}

\* The value yielded is an error of this kind and no response.
C16_YieldsError(kind) ==
    /\ Len(yielded) = 1
    /\ yielded[1].resp = Nil
    /\ yielded[1].err # Nil
    /\ {k \in C16_Messages : HasPrefix(yielded[1].err.msg, k)} = {kind}

\* C16: a request that cannot be serialized, a transport failure, a status
\* that is no success and a body that cannot be deserialized each end the
\* iteration with an error of their own kind and no response, and the
\* iteration sends no further request.
C16_FailuresAreDistinctErrors ==
    /\ httpSent <= 1
    /\ pc = "done" =>
          /\ (call.config # Nil /\ call.config.temperature = NaN) =>
                C16_YieldsError("failed to marshal request") /\ httpSent = 0
          /\ (httpResp # Nil /\ httpResp.err # "") =>
                C16_YieldsError("failed to send request")
          /\ (httpResp # Nil /\ httpResp.err = "" /\ httpResp.status \notin 200..299) =>
                C16_YieldsError("LLM request failed with status")
          /\ (C12_ResponseRead /\ httpResp.status = StatusOK
                /\ httpResp.body \in {"", "<html>Bad Gateway</html>"}) =>
                C16_YieldsError("failed to decode response")

C16_Witness ==
    /\ pc = "done"
    /\ httpSent = 1
    /\ httpResp # Nil
    /\ httpResp.status = 500
    /\ yielded = <<[resp |-> Nil,
                    err |-> [msg |-> "LLM request failed with status 500: <html>Bad Gateway</html>"]]>>

\* The value yielded is the backend-status error, with the code and the body.
C17_StatusError ==
    /\ yielded[1].resp = Nil
    /\ yielded[1].err # Nil
    /\ yielded[1].err.msg =
           "LLM request failed with status " \o ToString(httpResp.status) \o ": "
           \o httpResp.body

\* C17: the backend-status error, with the status code and the body, is
\* yielded exactly when the status of the response is outside 200..299; a
\* response with a status in 200..299 is decoded.
C17_StatusErrorIffNot2xx ==
    C12_ResponseRead =>
        /\ C17_StatusError <=> httpResp.status \notin 200..299
        /\ (httpResp.status \in 200..299 /\ httpResp.body = "{}") =>
              yielded[1].err = Nil

\* The caller configured a temperature.
C18_Configured == call.config # Nil /\ call.config.temperature # Nil

\* C18: the wire request has a temperature field exactly when the caller
\* configured a temperature, and the field holds the configured value, 0
\* included.
C18_TemperatureIffConfigured ==
    wire # Nil =>
        /\ wire.temperature # Nil <=> C18_Configured
        /\ C18_Configured => wire.temperature = call.config.temperature

\* C19: when ctx is cancelled before client.Do has returned, the iteration
\* yields no decoded response, and it ends having yielded an error.
C19_CancelledCallYieldsError ==
    cancelledAt \in {"idle", "inflight"} =>
        /\ pc # "received"
        /\ \A i \in 1..Len(yielded) : yielded[i].resp = Nil /\ yielded[i].err # Nil
        /\ pc = "done" => Len(yielded) = 1

C19_Witness ==
    /\ cancelledAt = "inflight"
    /\ iteration = 1
    /\ pc = "done"
    /\ httpSent = 1
    /\ yielded = <<[resp |-> Nil, err |-> [msg |-> "failed to send request: context canceled"]]>>

-----------------------------------------------------------------------------
(* Properties of the interactive loop, under SpecLoop.                      *)

\* The last pass met an error of the runner; it was reported and the loop is
\* back at the prompt.
C20_ErrorReportedSessionGoesOn ==
    hasError(lastRun) =>
        /\ loopPc = "prompt"
        /\ \E i \in 1..Len(output) : HasPrefix(output[i], "Error: ")

\* C20 as stated: an error while a query is processed is reported and the
\* loop returns to the prompt; the loop ends only at the end of the input or
\* on the input "quit" or "exit".
C20_EndsOnlyOnEndOfInputOrQuit ==
    /\ C20_ErrorReportedSessionGoesOn
    /\ loopPc = "ended" =>
          \/ scanned.kind = "eof"
          \/ scanned.kind = "line" /\ scanned.text \in {"quit", "exit"}

\* C20 amended: an error while a query is processed is reported and the loop
\* returns to the prompt; the loop ends only when the scanner stops, at the
\* end of the input or on an error of the scanner, or on a line that is
\* "quit" or "exit" once the white space around it is trimmed.
C20_EndsOnlyWhenScanStopsOrQuit ==
    /\ C20_ErrorReportedSessionGoesOn
    /\ loopPc = "ended" =>
          \/ scanned.kind \in {"eof", "tooLong", "readError"}
          \/ scanned.kind = "line" /\ TrimSpace(scanned.text) \in {"quit", "exit"}
    /\ (scanned # None /\ loopPc = "prompt") =>
          /\ scanned.kind = "line"
          /\ TrimSpace(scanned.text) \notin {"quit", "exit"}

C20_Witness ==
    /\ errorsSeen = 1
    /\ loopPc = "prompt"
    /\ stdin = <<>>
    /\ scanned = [kind |-> "line", text |-> "QUIT"]
    /\ ~hasError(lastRun)
    /\ output[Len(output)] = "Agent: 42 users"

\* A step in which the loop takes a line and hands it to ProcessQuery and to
\* the runner.
C30_QueryProcessed ==
    /\ Len(stdin') < Len(stdin)
    /\ \E i \in 1..Len(output') : output'[i] = "Processing..."

\* C30: once a shutdown signal has been received and the context cancelled,
\* the loop processes no further query: no later line is classified by
\* ProcessQuery or passed to the runner.
C30_NoQueryAfterShutdown == [][ctxCancelled => ~C30_QueryProcessed]_vars

-----------------------------------------------------------------------------
(* Properties of concurrent calls on one Classifier, under SpecConcurrent.  *)

\* What a call of op on q returns when no other call runs.
C21_Alone(op, q) ==
    IF op = "Classify"
    THEN {[op |-> "Classify", intent |-> Classify(q, order)] : order \in Orders}
    ELSE {[op |-> "ClassifyWithConfidence",
           intent |-> ClassifyWithConfidence(q, order).intent,
           confidence |-> ClassifyWithConfidence(q, order).confidence] :
             order \in Orders}

C21_VocabularyUnwritten == vocabulary = intentPrototypes

C21_ResultAsAlone ==
    \A g \in Goroutines :
        running[g].pc = "returned" =>
            running[g].result \in C21_Alone(running[g].op, running[g].query)

\* A step writes no score map but the one of the goroutine that takes it.
C21_OwnScoreMap ==
    \A m \in Goroutines : scoreMaps'[m] # scoreMaps[m] => running'[m] # running[m]

\* C21: under any interleaving of concurrent calls of Classify and
\* ClassifyWithConfidence on one Classifier, the keyword vocabulary keeps the
\* value NewClassifier gave it, a call writes its own score map only, and
\* each call returns what it returns when it runs alone.
C21_ConcurrentCallsAreIndependent ==
    /\ [](C21_VocabularyUnwritten /\ C21_ResultAsAlone)
    /\ [][C21_OwnScoreMap]_vars

C21_Witness ==
    /\ \A g \in Goroutines : running[g].pc = "returned" /\ running[g].overlapped
    /\ running[1].op = "Classify"
    /\ running[2].op = "ClassifyWithConfidence"
    /\ running[1].query = "bar chart"
    /\ running[2].query = "SELECT table"
    /\ running[1].result.intent = IntentVisualization
    /\ running[2].result.intent = IntentSQLQuery

-----------------------------------------------------------------------------
(* Further properties of convertToMessages, under SpecMessages.             *)

\* The wire role as stated: "model" becomes "assistant", every other role
\* passes through.
C22_PassThrough(role) == IF role = "model" THEN "assistant" ELSE role

\* The turns whose text makes or extends a message of the role of the turn:
\* those with text and without function calls.
C22_TextTurns ==
    {k \in 1..Len(req.contents) :
        /\ textContent(req.contents[k].parts, 1) # ""
        /\ funcCalls(req.contents[k].parts, 1) = <<>>}

\* C22: convertToMessages maps the role of each turn to the wire role by
\* turning "model" into "assistant" and passing every other role (system,
\* user, tool) through unchanged: the text of a turn is in a message of
\* that wire role.
C22_OtherRolesPassThrough ==
    converted =>
        \A k \in C22_TextTurns :
            \E m \in 1..Len(messages) :
                /\ messages[m].role = C22_PassThrough(req.contents[k].role)
                /\ messages[m].toolCallId = ""
                /\ Contains(messages[m].content, textContent(req.contents[k].parts, 1))

C23_NoLaterSystemMessage ==
    \A m \in 2..Len(finalMessages) : finalMessages[m].role # "system"

\* C23 as stated: whenever the request carries a system instruction, the
\* output of convertToMessages starts with a message of role "system"
\* holding its text, and no other message of the output has that role.
C23_SystemInstructionComesFirst ==
    converted =>
        /\ req.systemInstruction # Nil =>
              /\ Len(finalMessages) > 0
              /\ finalMessages[1].role = "system"
              /\ finalMessages[1].content = sysText(req)
        /\ C23_NoLaterSystemMessage

\* C23 amended: whenever the text parts of the system instruction make a
\* text that is not empty, the output starts with a message of role
\* "system" holding that text; a request without system instruction, or
\* with one that has no text, gives no system message; and no message after
\* the first has role "system", whatever the roles of the turns.
C23_SystemTextComesFirst ==
    converted =>
        /\ sysText(req) # "" =>
              finalMessages[1] = chatMessage("system", sysText(req), <<>>, "")
        /\ sysText(req) = "" =>
              \A m \in 1..Len(finalMessages) : finalMessages[m].role # "system"
        /\ C23_NoLaterSystemMessage

C23_Witness ==
    /\ converted
    /\ req.systemInstruction # Nil
    /\ Len(req.contents) = 2
    /\ req.contents[1].role = "system"
    /\ req.contents[2].role = "model"
    /\ finalMessages[1] = chatMessage("system", "You are helpful", <<>>, "")
    /\ finalMessages[2] = chatMessage("user", "be brief", <<>>, "")
    /\ Len(finalMessages) = 3

C24_CallTurns ==
    {k \in 1..Len(req.contents) :
        \E i \in 1..Len(req.contents[k].parts) :
            req.contents[k].parts[i].functionCall # Nil}

C24_IsCall(part) == part.functionCall # Nil

C24_Entry(part) ==
    [id |-> part.functionCall.id, type |-> "function",
     function |-> [name |-> part.functionCall.name,
                   arguments |-> Marshal(part.functionCall.args)]]

\* The message of a turn with function calls: its text and one entry per call.
C24_CallMessage(content) ==
    LET withCall == SelectSeq(content.parts, C24_IsCall)
    IN  chatMessage("assistant", textContent(content.parts, 1),
                    [i \in 1..Len(withCall) |-> C24_Entry(withCall[i])], "")

\* The list as it is when the loop reaches turn k.
C24_Before(k) == convertTurns(systemMessages(req), SubSeq(req.contents, 1, k - 1), 1)

C24_Responses(content) ==
    Len(SelectSeq(content.parts, LAMBDA part : part.functionResponse # Nil))

\* C24: a turn that carries function calls gives exactly one assistant
\* message, with one toolCalls entry per call, in order, of type "function"
\* and with the id, the name and the JSON-encoded arguments of the call; the
\* messages before it are what they were before the turn, and its content
\* stays the text of the turn: it is merged with no neighbour.
C24_CallMessageStandsAlone ==
    converted =>
        \A k \in C24_CallTurns :
            LET before == C24_Before(k)
                p == Len(before) + 1
                n == C24_Responses(req.contents[k])
            IN  /\ Len(messages) >= p + n
                /\ SubSeq(messages, 1, p - 1) = before
                /\ messages[p] = C24_CallMessage(req.contents[k])
                /\ \A m \in p + 1..p + n : messages[m].role = "tool"
                /\ \E f \in 1..Len(finalMessages) :
                      finalMessages[f] = C24_CallMessage(req.contents[k])

C24_Witness ==
    /\ converted
    /\ Len(req.contents) = 3
    /\ req.contents[1] = Turn("model", <<TextPart("ok")>>)
    /\ req.contents[2].role = "model"
    /\ 2 \in C24_CallTurns
    /\ textContent(req.contents[2].parts, 1) = "calling"
    /\ req.contents[3] = Turn("model", <<TextPart("ok")>>)
    /\ Len(finalMessages) = 3
    /\ finalMessages[1].content = "ok"
    /\ finalMessages[2].content = "calling"
    /\ Len(finalMessages[2].toolCalls) = 1
    /\ finalMessages[3].content = "ok"

C27_PlainAssistant(msg) == msg.role = "assistant" /\ msg.toolCalls = <<>>

\* C27: in the output of convertToMessages no two adjacent messages both
\* have role user, and no two adjacent messages are both assistant messages
\* without toolCalls, the inserted "Action completed." message included.
C27_NoAdjacentSameRoleText ==
    converted =>
        \A m \in 1..Len(finalMessages) - 1 :
            /\ ~(finalMessages[m].role = "user" /\ finalMessages[m + 1].role = "user")
            /\ ~(C27_PlainAssistant(finalMessages[m])
                   /\ C27_PlainAssistant(finalMessages[m + 1]))

C27_Witness ==
    /\ converted
    /\ Len(req.contents) = 3
    /\ req.contents[1] = Turn("user", <<ResponsePart("c1", "list_tables", [result |-> "users"])>>)
    /\ req.contents[2] = Turn("user", <<TextPart("hi")>>)
    /\ req.contents[3] = Turn("system", <<TextPart("be brief")>>)
    /\ Len(finalMessages) = 3
    /\ finalMessages[1].role = "tool"
    /\ finalMessages[2] = syntheticMessage
    /\ finalMessages[3] = chatMessage("user", "hi\nbe brief", <<>>, "")

\* The positions of msgs where a tool message is directly followed by a user
\* message.
C28_ToolThenUser(msgs) ==
    {m \in 1..Len(msgs) - 1 : msgs[m].role = "tool" /\ msgs[m + 1].role = "user"}

\* msgs without the messages at the positions of the set drop.
RECURSIVE C28_Without(_, _, _)
C28_Without(msgs, drop, m) ==
    IF m > Len(msgs) THEN <<>>
    ELSE (IF m \in drop THEN <<>> ELSE <<msgs[m]>>) \o C28_Without(msgs, drop, m + 1)

\* C28: the repair pass only inserts.  Its output without the inserted
\* "Action completed." messages is the list before the pass, message by
\* message; as many are inserted as there are positions where a tool message
\* is directly followed by a user message; and the pass inserts nothing
\* into its own output.
C28_RepairOnlyInserts ==
    converted =>
        /\ \E inserted \in SUBSET (1..Len(finalMessages)) :
              /\ \A m \in inserted : finalMessages[m] = syntheticMessage
              /\ C28_Without(finalMessages, inserted, 1) = messages
              /\ Cardinality(inserted) = Cardinality(C28_ToolThenUser(messages))
        /\ Len(finalMessages) = Len(messages) + Cardinality(C28_ToolThenUser(messages))
        /\ C28_ToolThenUser(finalMessages) = {}
        /\ alternationRepair(finalMessages) = finalMessages

C28_Witness ==
    /\ converted
    /\ Len(req.contents) = 3
    /\ req.contents[1] = Turn("model", <<TextPart("Action completed.")>>)
    /\ req.contents[2] = Turn("user", <<TextPart("done"), ResponsePart("c2", "query_database", <<>>)>>)
    /\ req.contents[3] = Turn("user", <<TextPart("hi")>>)
    /\ Len(messages) = 4
    /\ Len(finalMessages) = 5
    /\ finalMessages[1] = syntheticMessage
    /\ finalMessages[4] = syntheticMessage
    /\ C28_ToolThenUser(messages) = {3}

-----------------------------------------------------------------------------
(* Further properties of the classifier, under SpecClassifier.              *)

\* The largest of the three adjusted scores of the query.
C25_Best ==
    CHOOSE b \in {Scores(query)[i] : i \in Intents} :
        \A i \in Intents : Scores(query)[i] <= b

\* The second-largest: the largest score of the two intents left when one
\* intent with the best score is set aside.
C25_RunnerUp ==
    LET top == CHOOSE i \in Intents : Scores(query)[i] = C25_Best
    IN  CHOOSE r \in {Scores(query)[i] : i \in Intents \ {top}} :
            \A i \in Intents \ {top} : Scores(query)[i] <= r

\* C25: when the best adjusted score is at least 0.1, the confidence of
\* ClassifyWithConfidence is (best - runnerUp) / best if runnerUp > 0 and
\* min(best, 1.0) otherwise, in whatever order the intents are visited, and
\* is positive when best exceeds runnerUp; when best < 0.1 the result is
\* General with confidence 0.
C25_ConfidenceIsMargin ==
    out.op = "ClassifyWithConfidence" =>
        IF 10 * C25_Best < Unit
        THEN out.intent = IntentGeneral /\ out.confidence = <<0, 1>>
        ELSE /\ out.confidence =
                   IF C25_RunnerUp > 0 THEN <<C25_Best - C25_RunnerUp, C25_Best>>
                   ELSE IF C25_Best < Unit THEN <<C25_Best, Unit>>
                   ELSE <<1, 1>>
             /\ C25_Best > C25_RunnerUp => out.confidence[1] > 0

C25_Witness ==
    /\ out.op = "ClassifyWithConfidence"
    /\ prev.op = "ClassifyWithConfidence"
    /\ 10 * C25_Best >= Unit
    /\ C25_RunnerUp > 0
    /\ C25_Best > C25_RunnerUp
    /\ Scores(query)[IntentGeneral] = C25_RunnerUp
    /\ out.confidence = <<C25_Best - C25_RunnerUp, C25_Best>>

\* C26: for every query, Classify and ClassifyWithConfidence return the
\* same intent, so that the intent ProcessQuery reports is the one Classify
\* returns: two calls in a row on the query, one of each, agree.
C26_ClassifyAgreesWithConfidence ==
    /\ out.op = "Classify" /\ prev.op \in {"ClassifyWithConfidence", "ProcessQuery"}
          => out.intent = prev.intent
    /\ prev.op = "Classify" /\ out.op \in {"ClassifyWithConfidence", "ProcessQuery"}
          => out.intent = prev.intent

-----------------------------------------------------------------------------
(* Properties of the configuration, under SpecConfig.                       *)

\* C29: whenever Config.Validate returns nil, the back end main selects has
\* its required setting, for every value of LLM_PROVIDER: GoogleAPIKey is
\* not empty if IsLocalLLM is false (the Gemini client is built), and
\* LocalLLMURL is not empty if IsLocalLLM is true.
C29_SelectedBackendIsConfigured ==
    backend \in {"validated", "gemini", "localllm"} =>
        IF IsLocalLLM(loaded) THEN loaded.LocalLLMURL # ""
        ELSE loaded.GoogleAPIKey # ""

=============================================================================
